---- MODULE Spec2Model ----
(***************************************************************************)
(* A model of the flatshare-chaos core: the bounded conversation memory    *)
(* (app/memory_manager.py), the mood system (app/mood_system.py), the      *)
(* relationship matrix (app/relationship_engine.py) and the turn           *)
(* composition of Engine (app/engine.py) and PersonalityEngine             *)
(* (app/personality_engine.py).  Each component has its own specification; *)
(* the variables of the other components stay at their constructed values. *)
(***************************************************************************)
EXTENDS Integers, Sequences, FiniteSets, TLC

VARIABLES
    \* ---- MemoryManager / EnhancedRoommate.conversation_memory
    max_memory_size,      \* MemoryManager.max_memory_size
    conversation_memory,  \* roommate.conversation_memory: Seq of entries
    appended,             \* number of add_conversation calls made so far
    appended_tail,        \* the last (up to RecentKeep) entries handed to add_conversation
    \* ---- MoodSystem / EnhancedRoommate.mood
    mood,                 \* roommate.mood
    baseline_mood,        \* roommate.baseline_mood
    elapsed,              \* datetime.now() - last_decay_time, in clock ticks
    mood_op,              \* the MoodSystem method that ran last
    minutes_passed,       \* what the last auto_decay_check that decayed passed to
                          \* decay_moods, in ticks
    \* ---- RelationshipEngine
    relationship_matrix,  \* dict: canonical pair of names -> score
    rel_calls,            \* number of calls made so far
    rel_last,             \* the last call: <<method, roommate1, roommate2>>, and for
                          \* simulate_interaction_outcome its other arguments
    rel_result,           \* what the last call returned
    \* ---- Engine (app/engine.py)
    max_roasts_per_turn,  \* Engine.max_roasts_per_turn
    roommates,            \* Engine.roommates: the names of the persona pool
    conversation_history, \* Engine.conversation_history: Seq of lines
    eng_turns,            \* number of turn / turn_stream calls made so far
    eng_pc,               \* where the running turn is suspended
    eng_mode,             \* "turn" or "turn_stream"
    eng_user_msg,         \* user_msg of the running turn
    eng_primary,          \* primary.name
    eng_roasters,         \* roasters[:n], by name
    eng_k,                \* number of speakers whose request has been built
    eng_request,          \* the request the backend is serving (speaker, target, context)
    lines,                \* the list `lines` of Engine.turn
    response_parts,       \* response_parts of primary_stream / roast_stream
    prov_pos,             \* number of chunks the provider has produced for the request
    eng_yielded,          \* the fragments turn_stream has yielded to its consumer
    eng_hist_adds,        \* number of _add_to_history calls of the running turn
    eng_outcome,          \* how the turn ended
    \* ---- PersonalityEngine (app/personality_engine.py)
    interaction_history,  \* PersonalityEngine.interaction_history: Seq of entries
    relationships,        \* roommate.relationships, per roommate
    has_generate_stream,  \* hasattr(backend, 'generate_stream')
    pe_turns,             \* number of personality_turn(_stream) calls made so far
    pe_pc,                \* where the running turn is suspended
    pe_mode,              \* "personality_turn" or "personality_turn_stream"
    pe_user_msg,          \* user_message of the running turn
    pe_primary,           \* primary_responder.name
    pe_roasters,          \* roasters, by name
    pe_k,                 \* number of speakers whose request has been built
    pe_target,            \* target of the roast being generated
    responses,            \* the list `responses` of personality_turn
    pe_prov_pos,          \* number of chunks the provider has produced for the request
    pe_yielded,           \* the fragments personality_turn_stream has yielded
    pe_outcome,           \* how the turn ended
    \* ---- MemoryManager.get_relevant_context
    ctx_query,            \* the arguments of the last call, and datetime.now() at it
    relevant_context,     \* the list the last call returned
    \* ---- ConversationAnalyzer.analyze_message
    an_message,           \* the argument of the last call
    an_result,            \* what the last call did: the result, or the exception
    \* ---- RealHTTPBackend.get_roasts (app/backend/real_http_backend.py)
    http_pc,              \* where the call is: "idle", "post", "sleep" or "done"
    http_attempt,         \* the loop variable `attempt`
    http_posts,           \* the POST attempts made so far, with how each ended
    http_sleeps,          \* the asyncio.sleep calls made so far, in tenths of a second
    http_result,          \* what the call did: the roasts returned, or the exception
    \* ---- the /roast handler (server/main.py)
    srv_pc,               \* where the request is: "idle", "gather" or "done"
    srv_req,              \* the request: its characters and its spice
    srv_outs,             \* per task of asyncio.gather: pending, its text or its exception
    srv_response          \* what the handler did: the roasts returned, or the exception

memVars == <<max_memory_size, conversation_memory, appended, appended_tail>>
moodVars == <<mood, baseline_mood, elapsed, mood_op, minutes_passed>>
relVars == <<relationship_matrix, rel_calls, rel_last, rel_result>>

engVars == <<max_roasts_per_turn, roommates, conversation_history, eng_turns, eng_pc,
             eng_mode, eng_user_msg, eng_primary, eng_roasters, eng_k,
             eng_request, lines, response_parts, prov_pos, eng_yielded,
             eng_hist_adds, eng_outcome>>
peVars == <<interaction_history, relationships, has_generate_stream, pe_turns,
            pe_pc, pe_mode, pe_user_msg, pe_primary, pe_roasters, pe_k,
            pe_target, responses, pe_prov_pos, pe_yielded, pe_outcome>>

ctxVars == <<ctx_query, relevant_context>>

anVars == <<an_message, an_result>>

httpVars == <<http_pc, http_attempt, http_posts, http_sleeps, http_result>>

srvVars == <<srv_pc, srv_req, srv_outs, srv_response>>

vars == <<memVars, moodVars, relVars, engVars, peVars, ctxVars, anVars,
          httpVars, srvVars>>

-----------------------------------------------------------------------------
(* Sequence helpers modelling Python list slicing.                         *)

Max2(a, b) == IF a >= b THEN a ELSE b
Min2(a, b) == IF a <= b THEN a ELSE b

\* s[-n:] for n >= 0.  Python reads -0 as 0, so s[-0:] is the whole list.
PySliceLast(s, n) ==
    IF n = 0 \/ n >= Len(s) THEN s
    ELSE SubSeq(s, Len(s) - n + 1, Len(s))

\* s[:-n] for n > 0.
PySliceButLast(s, n) ==
    IF n >= Len(s) THEN << >> ELSE SubSeq(s, 1, Len(s) - n)

-----------------------------------------------------------------------------
(* MemoryManager                                                           *)

\* bounds of the memory model
MaxAppends == 13
MaxMemorySize == 12

\* the number of most recent entries add_conversation keeps untouched
RecentKeep == 10

\* ConversationEntry.effectiveness_score: None, or a score (in tenths)
NoScore == -1
EffChoices == {NoScore, 9}

\* max_memory_size values the MemoryManager is built with
MemorySizes == {0, 3} \cup (RecentKeep .. MaxMemorySize)

\* key=lambda x: x.effectiveness_score or 0.0
EffKey(e) == IF e.effectiveness_score = NoScore THEN 0 ELSE e.effectiveness_score

\* list.sort(key=...) is stable: insert x behind every element whose key is <= its key
RECURSIVE InsertByEff(_, _)
InsertByEff(s, x) ==
    IF s = << >> THEN << x >>
    ELSE IF EffKey(Head(s)) <= EffKey(x)
         THEN << Head(s) >> \o InsertByEff(Tail(s), x)
         ELSE << x >> \o s

RECURSIVE SortByEff(_)
SortByEff(s) ==
    IF s = << >> THEN << >>
    ELSE InsertByEff(SortByEff(PySliceButLast(s, 1)), s[Len(s)])

\* a variant that ranks the whole memory by effectiveness, recent entries included
EvictOlder_RankAll(mem, max) ==
    PySliceLast(SortByEff(mem), max)

\* s[:n] for n >= 0
PySliceFirst(s, n) == SubSeq(s, 1, Min2(n, Len(s)))

\* the eviction branch, keeping the head of the sorted older entries
EvictOlder_KeepLowest(mem, max) ==
    LET entries_to_remove == Len(mem) - max
        recent_entries == PySliceLast(mem, RecentKeep)
        older_entries == SortByEff(PySliceButLast(mem, RecentKeep))
        entries_to_keep == Len(older_entries) - entries_to_remove
    IN  PySliceFirst(older_entries, Max2(0, entries_to_keep)) \o recent_entries

\* the eviction branch for more than RecentKeep entries (lines 30-46)
EvictOlder(mem, max) ==
    LET entries_to_remove == Len(mem) - max
        recent_entries == PySliceLast(mem, RecentKeep)
        older_entries == SortByEff(PySliceButLast(mem, RecentKeep))
        entries_to_keep == Len(older_entries) - entries_to_remove
        kept_older_entries ==
            IF entries_to_keep > 0 THEN PySliceLast(older_entries, entries_to_keep)
            ELSE << >>
    IN  kept_older_entries \o recent_entries

\* the memory after add_conversation(roommate, entry)
AddConversationResult(mem, max, entry) ==
    LET m1 == Append(mem, entry)
    IN  IF Len(m1) > max
        THEN IF Len(m1) > RecentKeep
             THEN EvictOlder(m1, max)
             ELSE PySliceLast(m1, max)
        ELSE m1

\* get_conversation_thread(roommate, turns)
get_conversation_thread(mem, turns) ==
    IF mem = << >> THEN << >> ELSE PySliceLast(mem, turns)

MemIdle ==
    /\ max_memory_size = 50
    /\ conversation_memory = << >>
    /\ appended = 0
    /\ appended_tail = << >>

MemInit ==
    /\ max_memory_size \in MemorySizes
    /\ conversation_memory = << >>
    /\ appended = 0
    /\ appended_tail = << >>

\* add_conversation with a fresh entry; timestamps follow the order of the calls
add_conversation ==
    /\ appended < MaxAppends
    /\ \E eff \in EffChoices :
         LET entry == [timestamp |-> appended + 1, effectiveness_score |-> eff]
         IN  /\ conversation_memory' =
                    AddConversationResult(conversation_memory, max_memory_size, entry)
             /\ appended_tail' = PySliceLast(Append(appended_tail, entry), RecentKeep)
    /\ appended' = appended + 1
    /\ UNCHANGED <<max_memory_size, moodVars, relVars, engVars, peVars, ctxVars, anVars, httpVars, srvVars>>

MemNext == add_conversation

\* The run of spec 8: Scenario.entries entries appended one by one, the
\* oldest Scenario.low of them with the low effectiveness and the others
\* with the high one (effectiveness in tenths).
Scenario == [entries |-> 60, low |-> 15, low_score |-> 1, high_score |-> 9]
ScenarioSizes == { 40, 50, 60 }

ScenarioEntry(i) ==
    [timestamp |-> i,
     effectiveness_score |->
        IF i <= Scenario.low THEN Scenario.low_score ELSE Scenario.high_score]

ScenarioInit ==
    /\ max_memory_size \in ScenarioSizes
    /\ conversation_memory = << >>
    /\ appended = 0
    /\ appended_tail = << >>

\* add_conversation with the next entry of the run
add_scenario_conversation ==
    /\ appended < Scenario.entries
    /\ LET entry == ScenarioEntry(appended + 1)
       IN  /\ conversation_memory' =
                  AddConversationResult(conversation_memory, max_memory_size, entry)
           /\ appended_tail' = PySliceLast(Append(appended_tail, entry), RecentKeep)
    /\ appended' = appended + 1
    /\ UNCHANGED <<max_memory_size, moodVars, relVars, engVars, peVars, ctxVars, anVars, httpVars, srvVars>>

ScenarioNext == add_scenario_conversation

-----------------------------------------------------------------------------
(* MoodSystem.  One roommate is tracked: decay_moods treats every roommate *)
(* of its list alone, by the loop body DecayOne.  Time is counted in clock *)
(* ticks, TicksPerMinute to the minute, and the float products of the code *)
(* are computed exactly, as fractions.                                     *)

\* clock resolution and the longest time let pass between two decay checks
TicksPerMinute == 2
MaxElapsed == 4

\* mood_decay_rate = 0.1, in tenths of a mood point per minute
MoodDecayRateTenths == 1

MoodMin == 1
MoodMax == 100

BaselineChoices == {MoodMin, 35, 50, 80, MoodMax}
Intensities == 1..10
EventTypes == {"roast_received", "roast_successful", "defended", "complimented",
               "ignored", "praised", "criticized", "supported", "unknown"}
\* mood_impact arguments of simulate_mood_event
ImpactChoices == {-150, -10, -1, 0, 1, 10, 150}
\* minutes_passed arguments of decay_moods, in ticks
DecayTickChoices == {0, 1, TicksPerMinute, 10 * TicksPerMinute, 45, 400}

\* int(x) for x = num / den, den > 0: truncation toward zero
IntTrunc(num, den) ==
    IF num >= 0 THEN num \div den ELSE -((-num) \div den)

\* mood_changes.get(event_type, 0); // is floor division, as \div is
MoodDelta(event_type, intensity) ==
    CASE event_type = "roast_received"   -> -intensity
      [] event_type = "roast_successful" -> intensity \div 2
      [] event_type = "defended"         -> intensity
      [] event_type = "complimented"     -> intensity
      [] event_type = "ignored"          -> (-intensity) \div 3
      [] event_type = "praised"          -> intensity
      [] event_type = "criticized"       -> -intensity
      [] event_type = "supported"        -> intensity \div 2
      [] OTHER                           -> 0

\* a variant that applies the change without clamping
ClampMood_None(m) == m

\* max(1, min(100, m))
ClampMood(m) == Max2(MoodMin, Min2(MoodMax, m))

\* a variant that subtracts or adds the decay amount without stopping at the baseline
DecayOne_Overshoot(current_mood, baseline, ticks) ==
    LET den == 10 * TicksPerMinute
        amount == MoodDecayRateTenths * ticks
    IN  IF current_mood > baseline THEN IntTrunc(current_mood * den - amount, den)
        ELSE IF current_mood < baseline THEN IntTrunc(current_mood * den + amount, den)
        ELSE baseline

\* the loop body of decay_moods: the new mood of one roommate after
\* minutes_passed = ticks / TicksPerMinute; decay_amount = amount / den
DecayOne(current_mood, baseline, ticks) ==
    LET den == 10 * TicksPerMinute
        amount == MoodDecayRateTenths * ticks
    IN  IF current_mood > baseline
        THEN IntTrunc(Max2(baseline * den, current_mood * den - amount), den)
        ELSE IF current_mood < baseline
        THEN IntTrunc(Min2(baseline * den, current_mood * den + amount), den)
        ELSE baseline

\* the dict get_mood_modifier returns, in tenths
Modifiers(aggression, humor, defensiveness, roast_likelihood, response_length) ==
    [aggression |-> aggression, humor |-> humor, defensiveness |-> defensiveness,
     roast_likelihood |-> roast_likelihood, response_length |-> response_length]

\* MoodSystem.get_mood_modifier(roommate), by roommate.mood
get_mood_modifier(m) ==
    IF m < 30 THEN Modifiers(15, 7, 13, 14, 8)
    ELSE IF m < 50 THEN Modifiers(12, 9, 11, 12, 10)
    ELSE IF m > 80 THEN Modifiers(6, 13, 8, 7, 12)
    ELSE IF m > 60 THEN Modifiers(8, 11, 10, 9, 10)
    ELSE Modifiers(10, 10, 10, 10, 10)

\* no auto_decay_check has decayed yet
NoDecay == -1

MoodIdle ==
    /\ mood = 50
    /\ baseline_mood = 50
    /\ elapsed = 0
    /\ mood_op = "init"
    /\ minutes_passed = NoDecay

MoodInit ==
    /\ mood \in MoodMin..MoodMax
    /\ baseline_mood \in BaselineChoices
    /\ elapsed = 0
    /\ mood_op = "init"
    /\ minutes_passed = NoDecay

update_mood ==
    /\ \E event_type \in EventTypes, intensity \in Intensities :
         mood' = ClampMood(mood + MoodDelta(event_type, intensity))
    /\ mood_op' = "update_mood"
    /\ UNCHANGED <<baseline_mood, elapsed, minutes_passed, memVars, relVars, engVars, peVars, ctxVars, anVars, httpVars, srvVars>>

simulate_mood_event ==
    /\ \E mood_impact \in ImpactChoices :
         mood' = ClampMood(mood + mood_impact)
    /\ mood_op' = "simulate_mood_event"
    /\ UNCHANGED <<baseline_mood, elapsed, minutes_passed, memVars, relVars, engVars, peVars, ctxVars, anVars, httpVars, srvVars>>

DecayMoodsWith(tick_choices) ==
    /\ \E ticks \in tick_choices :
         mood' = DecayOne(mood, baseline_mood, ticks)
    /\ mood_op' = "decay_moods"
    /\ UNCHANGED <<baseline_mood, elapsed, minutes_passed, memVars, relVars, engVars, peVars, ctxVars, anVars, httpVars, srvVars>>

\* decay_moods(roommates, minutes_passed) with minutes_passed >= 0
decay_moods == DecayMoodsWith(DecayTickChoices)

\* decay_moods(roommates, minutes_passed) with minutes_passed > 0
decay_moods_elapsed == DecayMoodsWith(DecayTickChoices \ {0})

\* a test that lets every call decay
EnoughTimePassed_Always(ticks) == TRUE

\* `if minutes_passed >= 1.0`, for minutes_passed = ticks / TicksPerMinute
EnoughTimePassed(ticks) == ticks >= TicksPerMinute

\* auto_decay_check: decays only when at least one minute has passed
auto_decay_check ==
    /\ IF EnoughTimePassed(elapsed)
       THEN /\ mood' = DecayOne(mood, baseline_mood, elapsed)
            /\ minutes_passed' = elapsed
            /\ elapsed' = 0
       ELSE UNCHANGED <<mood, elapsed, minutes_passed>>
    /\ mood_op' = "auto_decay_check"
    /\ UNCHANGED <<baseline_mood, memVars, relVars, engVars, peVars, ctxVars, anVars, httpVars, srvVars>>

\* the clock advances by one tick
ClockTick ==
    /\ elapsed < MaxElapsed
    /\ elapsed' = elapsed + 1
    /\ UNCHANGED <<mood, baseline_mood, mood_op, minutes_passed, memVars, relVars, engVars, peVars, ctxVars, anVars, httpVars, srvVars>>

MoodNext ==
    \/ update_mood
    \/ simulate_mood_event
    \/ decay_moods
    \/ auto_decay_check
    \/ ClockTick

\* decay only: no mood events occur
DecayNext ==
    \/ decay_moods_elapsed
    \/ auto_decay_check
    \/ ClockTick

-----------------------------------------------------------------------------
(* RelationshipEngine                                                      *)

MaxRelCalls == 3

\* roommate names, in the order Python's sorted() puts them
NameOrder == << "BeatDrop", "ChefCritic", "CodeMaster" >>
Names == { NameOrder[i] : i \in 1..Len(NameOrder) }
NameRank(n) == CHOOSE i \in 1..Len(NameOrder) : NameOrder[i] = n

DefaultScore == 50
SelfScore == 100
ScoreMin == 0
ScoreMax == 100

DeltaChoices == {-120, -7, 0, 3, 120}
InteractionTypes == {"roast", "defend", "compliment", "joke", "support", "conflict",
                     "unknown"}

\* a variant that keeps the arguments in the order given
RelationshipKey_Unsorted(roommate1, roommate2) == << roommate1, roommate2 >>

\* _get_relationship_key: tuple(sorted([roommate1, roommate2]))
RelationshipKey(roommate1, roommate2) ==
    IF NameRank(roommate1) <= NameRank(roommate2)
    THEN << roommate1, roommate2 >>
    ELSE << roommate2, roommate1 >>

\* a lookup that yields 0 for a missing key
DictGet_Zero(d, key, default) == IF key \in DOMAIN d THEN d[key] ELSE 0

\* dict.get(key, default)
DictGet(d, key, default) == IF key \in DOMAIN d THEN d[key] ELSE default

\* d[key] = value
DictSet(d, key, value) ==
    [k \in (DOMAIN d) \cup {key} |-> IF k = key THEN value ELSE d[k]]

EmptyDict == [k \in {} |-> 0]

\* update_relationship without its test for a self pair
UpdateRelationshipResult_SelfPair(m, roommate1, roommate2, delta) ==
    LET key == RelationshipKey(roommate1, roommate2)
        current_score == DictGet(m, key, DefaultScore)
        new_score == Max2(ScoreMin, Min2(ScoreMax, current_score + delta))
    IN  DictSet(m, key, new_score)

\* the matrix after update_relationship(roommate1, roommate2, delta)
UpdateRelationshipResult(m, roommate1, roommate2, delta) ==
    IF roommate1 = roommate2 THEN m
    ELSE LET key == RelationshipKey(roommate1, roommate2)
             current_score == DictGet(m, key, DefaultScore)
             new_score == Max2(ScoreMin, Min2(ScoreMax, current_score + delta))
         IN  DictSet(m, key, new_score)

get_relationship_score(m, roommate1, roommate2) ==
    IF roommate1 = roommate2 THEN SelfScore
    ELSE DictGet(m, RelationshipKey(roommate1, roommate2), DefaultScore)

\* a table that ignores `success`
InteractionDelta_AlwaysSuccess(interaction_type, success) ==
    CASE interaction_type = "roast"      -> -3
      [] interaction_type = "defend"     -> 5
      [] interaction_type = "compliment" -> 4
      [] interaction_type = "joke"       -> 2
      [] interaction_type = "support"    -> 3
      [] interaction_type = "conflict"   -> -5
      [] OTHER                           -> 0

\* base_changes.get(interaction_type, 0)
InteractionDelta(interaction_type, success) ==
    CASE interaction_type = "roast"      -> IF success THEN -3 ELSE -1
      [] interaction_type = "defend"     -> IF success THEN 5 ELSE 2
      [] interaction_type = "compliment" -> IF success THEN 4 ELSE 1
      [] interaction_type = "joke"       -> IF success THEN 2 ELSE -1
      [] interaction_type = "support"    -> IF success THEN 3 ELSE 1
      [] interaction_type = "conflict"   -> IF success THEN -5 ELSE -2
      [] OTHER                           -> 0

\* the matrix after simulate_interaction_outcome(roommate1, roommate2, type, success)
SimulateInteractionResult(m, roommate1, roommate2, interaction_type, success) ==
    IF roommate1 = roommate2 THEN m
    ELSE LET delta == InteractionDelta(interaction_type, success)
         IN  IF delta # 0 THEN UpdateRelationshipResult(m, roommate1, roommate2, delta)
             ELSE m

\* what simulate_interaction_outcome returns
SimulateInteractionReturn(roommate1, roommate2, interaction_type, success) ==
    IF roommate1 = roommate2 THEN 0
    ELSE InteractionDelta(interaction_type, success)

\* the matrix after reset_relationship(roommate1, roommate2)
ResetRelationshipResult(m, roommate1, roommate2) ==
    IF roommate1 # roommate2
    THEN DictSet(m, RelationshipKey(roommate1, roommate2), DefaultScore)
    ELSE m

\* The bands of get_roast_intensity_modifier, in hundredths.
IntensityForScore_Steep(relationship_score) ==
    IF relationship_score >= 80 THEN 50 + (relationship_score - 80) * 2
    ELSE IF relationship_score >= 60 THEN 70 + (relationship_score - 60)
    ELSE IF relationship_score >= 40 THEN 90 + (relationship_score - 40)
    ELSE IF relationship_score >= 20 THEN 110 + (40 - relationship_score)
    ELSE 130 + (20 - relationship_score)

IntensityForScore(relationship_score) ==
    IF relationship_score >= 80 THEN 50 + (relationship_score - 80)
    ELSE IF relationship_score >= 60 THEN 70 + (relationship_score - 60)
    ELSE IF relationship_score >= 40 THEN 90 + (relationship_score - 40)
    ELSE IF relationship_score >= 20 THEN 110 + (40 - relationship_score)
    ELSE 130 + (20 - relationship_score)

\* RelationshipEngine.get_roast_intensity_modifier, in hundredths.
get_roast_intensity_modifier(m, roaster, target) ==
    IF roaster = target
    THEN 100
    ELSE IntensityForScore(get_relationship_score(m, roaster, target))

\* RelationshipEngine.should_defend
should_defend(m, defender, target) ==
    IF defender = target THEN FALSE
    ELSE get_relationship_score(m, defender, target) > 70

\* RelationshipEngine.get_relationship_status
get_relationship_status(m, roommate1, roommate2) ==
    LET score == get_relationship_score(m, roommate1, roommate2)
    IN  IF score >= 90 THEN "best friends"
        ELSE IF score >= 80 THEN "close friends"
        ELSE IF score >= 70 THEN "good friends"
        ELSE IF score >= 60 THEN "friendly"
        ELSE IF score >= 40 THEN "neutral"
        ELSE IF score >= 30 THEN "tense"
        ELSE IF score >= 20 THEN "hostile"
        ELSE IF score >= 10 THEN "enemies"
        ELSE "bitter enemies"

\* the methods that only read the matrix, and what each returns
LookupMethods ==
    { "get_relationship_score", "should_defend", "get_roast_intensity_modifier",
      "get_relationship_status" }
LookupResult(method, m, roommate1, roommate2) ==
    CASE method = "get_relationship_score" ->
            [score |-> get_relationship_score(m, roommate1, roommate2)]
      [] method = "should_defend" ->
            [defend |-> should_defend(m, roommate1, roommate2)]
      [] method = "get_roast_intensity_modifier" ->
            [modifier |-> get_roast_intensity_modifier(m, roommate1, roommate2)]
      [] method = "get_relationship_status" ->
            [status |-> get_relationship_status(m, roommate1, roommate2)]

\* a method without a return statement returns None
ReturnsNone == [none |-> TRUE]

RelIdle ==
    /\ relationship_matrix = EmptyDict
    /\ rel_calls = 0
    /\ rel_last = << "init", "", "" >>
    /\ rel_result = ReturnsNone

update_relationship ==
    /\ rel_calls < MaxRelCalls
    /\ \E roommate1 \in Names, roommate2 \in Names, delta \in DeltaChoices :
         /\ relationship_matrix' =
                UpdateRelationshipResult(relationship_matrix, roommate1, roommate2, delta)
         /\ rel_last' = << "update_relationship", roommate1, roommate2 >>
         /\ rel_result' = ReturnsNone
    /\ rel_calls' = rel_calls + 1
    /\ UNCHANGED <<memVars, moodVars, engVars, peVars, ctxVars, anVars, httpVars, srvVars>>

simulate_interaction_outcome ==
    /\ rel_calls < MaxRelCalls
    /\ \E roommate1 \in Names, roommate2 \in Names,
          interaction_type \in InteractionTypes, success \in BOOLEAN :
         /\ relationship_matrix' =
                SimulateInteractionResult(relationship_matrix, roommate1, roommate2,
                                          interaction_type, success)
         /\ rel_last' = << "simulate_interaction_outcome", roommate1, roommate2,
                           interaction_type, success >>
         /\ rel_result' =
                [delta |-> SimulateInteractionReturn(roommate1, roommate2,
                                                     interaction_type, success)]
    /\ rel_calls' = rel_calls + 1
    /\ UNCHANGED <<memVars, moodVars, engVars, peVars, ctxVars, anVars, httpVars, srvVars>>

reset_relationship ==
    /\ rel_calls < MaxRelCalls
    /\ \E roommate1 \in Names, roommate2 \in Names :
         /\ relationship_matrix' =
                ResetRelationshipResult(relationship_matrix, roommate1, roommate2)
         /\ rel_last' = << "reset_relationship", roommate1, roommate2 >>
         /\ rel_result' = ReturnsNone
    /\ rel_calls' = rel_calls + 1
    /\ UNCHANGED <<memVars, moodVars, engVars, peVars, ctxVars, anVars, httpVars, srvVars>>

\* a call of one of the methods that only read the matrix
lookup ==
    /\ rel_calls < MaxRelCalls
    /\ \E method \in LookupMethods, roommate1 \in Names, roommate2 \in Names :
         /\ rel_last' = << method, roommate1, roommate2 >>
         /\ rel_result' = LookupResult(method, relationship_matrix, roommate1, roommate2)
    /\ rel_calls' = rel_calls + 1
    /\ UNCHANGED <<relationship_matrix, memVars, moodVars, engVars, peVars, ctxVars, anVars, httpVars, srvVars>>

RelNext ==
    \/ update_relationship
    \/ simulate_interaction_outcome
    \/ reset_relationship
    \/ lookup

-----------------------------------------------------------------------------
(* Text.  A text is a sequence of characters; a line "name: text" is the   *)
(* record of its speaker and its text.  A fragment is what a streamed turn *)
(* yields: the user's line, a speaker prefix, a chunk of text or "\n".     *)

Space == " "
Whitespace == { " ", "\n", "\t", "\r" }

\* str.strip(): drop the leading and the trailing whitespace.
RECURSIVE LStrip(_)
LStrip(t) ==
    IF t # << >> /\ Head(t) \in Whitespace THEN LStrip(Tail(t)) ELSE t

RECURSIVE RStrip(_)
RStrip(t) ==
    IF t # << >> /\ t[Len(t)] \in Whitespace THEN RStrip(SubSeq(t, 1, Len(t) - 1)) ELSE t

Strip(t) == RStrip(LStrip(t))

\* ''.join(parts)
RECURSIVE Join(_)
Join(parts) ==
    IF parts = << >> THEN << >> ELSE Head(parts) \o Join(Tail(parts))

Line(speaker, text) == [speaker |-> speaker, text |-> text]
UserLine(user_msg) == Line("You", << user_msg >>)

Frag(kind, speaker, text) == [kind |-> kind, speaker |-> speaker, text |-> text]
UserFrag(user_msg) == Frag("user", "You", << user_msg >>)
PrefixFrag(name) == Frag("prefix", name, << >>)
ChunkFrag(chunk) == Frag("chunk", "", chunk)
NewlineFrag == Frag("newline", "", << >>)

\* The backend: generate returns one of RawTexts or raises; generate_stream
\* produces the chunks ChunkAt(1), ChunkAt(2), ... and may end or raise
\* after any of them.  One chunk in three is empty and one in three is a
\* line break, as a model that streams its tokens produces them.
MaxChunks == 3
RawTexts == { << " ", "o", "k" >>, << " " >>, << "r", "a", "c", "e" >> }
ChunkAt(i) ==
    IF i % 3 = 1 THEN << "o" >> ELSE IF i % 3 = 2 THEN << >> ELSE << "\n" >>

\* The string of a fragment as the consumer of the stream receives it
\* (the f-strings and literals of engine.py 168, 193, 211, 219, 228).
Rendered(frag) ==
    CASE frag.kind = "user" -> << "You", ":", " " >> \o frag.text \o << "\n" >>
      [] frag.kind = "prefix" -> << frag.speaker, ":", " " >>
      [] frag.kind = "chunk" -> frag.text
      [] frag.kind = "newline" -> << "\n" >>

\* The messages a user types, with what ConversationAnalyzer.analyze_message
\* computes for each (sentiment and urgency in tenths).
UserMessages ==
    { "hello there", "I love this great day", "this is so bad and terrible",
      "help!!! this is urgent", "hello ChefCritic" }

-----------------------------------------------------------------------------
(* The safety filter (app/safety/filters.py)                               *)

MaxRoastLength == 200
LowerAlphabet ==
    << "a", "b", "c", "d", "e", "f", "g", "h", "i", "j", "k", "l", "m",
       "n", "o", "p", "q", "r", "s", "t", "u", "v", "w", "x", "y", "z" >>
UpperAlphabet ==
    << "A", "B", "C", "D", "E", "F", "G", "H", "I", "J", "K", "L", "M",
       "N", "O", "P", "Q", "R", "S", "T", "U", "V", "W", "X", "Y", "Z" >>
Digits == { "0", "1", "2", "3", "4", "5", "6", "7", "8", "9" }

\* re.IGNORECASE: letters are compared in lower case.
LowerOf ==
    [c \in { UpperAlphabet[i] : i \in 1..Len(UpperAlphabet) } |->
        LowerAlphabet[CHOOSE i \in 1..Len(UpperAlphabet) : UpperAlphabet[i] = c]]

LowerChar(c) == IF c \in DOMAIN LowerOf THEN LowerOf[c] ELSE c

LowerText(text) == [i \in 1..Len(text) |-> LowerChar(text[i])]

\* \w of the regular expressions
IsWordChar(c) ==
    \/ \E i \in 1..Len(LowerAlphabet) : LowerAlphabet[i] = LowerChar(c)
    \/ c \in Digits
    \/ c = "_"

\* the words of PROTECTED
ProtectedWords ==
    { << "r", "a", "c", "e" >>,
      << "r", "e", "l", "i", "g", "i", "o", "n" >>,
      << "g", "e", "n", "d", "e", "r" >>,
      << "s", "e", "x", "u", "a", "l" >>,
      << "d", "i", "s", "a", "b" >>,
      << "e", "t", "h", "n", "i", "c" >>,
      << "c", "a", "s", "t", "e" >> }

SlurStem == << "s", "l", "u", "r" >>

\* sub occurs in text at position i
OccursAt(sub, text, i) ==
    /\ i + Len(sub) - 1 <= Len(text)
    /\ SubSeq(text, i, i + Len(sub) - 1) = sub

\* PROTECTED.search(text): one of the words, between two word boundaries
ProtectedSearch(text) ==
    LET t == LowerText(text)
    IN  \E w \in ProtectedWords : \E i \in 1..Len(t) :
            /\ OccursAt(w, t, i)
            /\ (i = 1 \/ ~IsWordChar(t[i - 1]))
            /\ (i + Len(w) - 1 = Len(t) \/ ~IsWordChar(t[i + Len(w)]))

\* SLUR.search(text): a word that contains "slur"
SlurSearch(text) ==
    LET t == LowerText(text)
    IN  \E i \in 1..Len(t) : OccursAt(SlurStem, t, i)

Refusal == << "Let's keep it classy-PG-13 roast only." >>

\* sanitize_roast
sanitize_roast(text) ==
    IF ProtectedSearch(text) \/ SlurSearch(text)
    THEN Refusal
    ELSE LET stripped == Strip(text)
         IN  SubSeq(stripped, 1, Min2(Len(stripped), MaxRoastLength))

-----------------------------------------------------------------------------
(* MemoryManager.get_relevant_context.  Timestamps and datetime.now() are  *)
(* whole days; scores are the code's, multiplied by 70.                    *)

MaxContextEntries == 3
MaxLimit == 3
DefaultMaxMemorySize == 50
Food == << "f", "o", "o", "d" >>
Tech == << "T", "e", "c", "h" >>
ContextTopics == { << >>, << "F", "o", "o", "d" >>, Food \o << "i", "e" >> }
ContextMessages == { << "G", "o", "o", "d", " " >> \o Food, << "h", "i" >> }
TagLists == { << >>, << Food, Tech >> }
EntryDays == { 2, 9 }
NowDays == { 9, 12 }
NoQuery == [current_topic |-> << >>, limit |-> -1, now |-> 0]

\* sub in text
Contains(sub, text) ==
    sub = << >> \/ \E i \in 1..Len(text) : OccursAt(sub, text, i)

\* the score get_relevant_context gives an entry, times 70
RelevanceScore(entry, current_topic, now) ==
    LET current_topic_lower == LowerText(current_topic)
        days_ago == now - entry.timestamp
        recency == 3 * Max2(0, 7 - days_ago)
        topic_bonus ==
            IF Contains(current_topic_lower, LowerText(entry.message)) THEN 70 ELSE 0
        overlapping ==
            { i \in 1..Len(entry.context_tags) :
                \/ Contains(LowerText(entry.context_tags[i]), current_topic_lower)
                \/ Contains(current_topic_lower, LowerText(entry.context_tags[i])) }
        effectiveness_bonus ==
            IF entry.effectiveness_score # NoScore /\ entry.effectiveness_score > 7
            THEN 14 ELSE 0
    IN  recency + topic_bonus + 35 * Cardinality(overlapping) + effectiveness_bonus

\* list.sort(key=score, reverse=True) is stable: an entry goes behind the
\* entries that score as much as it does.
RECURSIVE InsertByRelevance(_, _, _, _)
InsertByRelevance(sorted, entry, current_topic, now) ==
    IF sorted = << >>
    THEN << entry >>
    ELSE IF RelevanceScore(Head(sorted), current_topic, now)
              >= RelevanceScore(entry, current_topic, now)
         THEN << Head(sorted) >> \o InsertByRelevance(Tail(sorted), entry, current_topic, now)
         ELSE << entry >> \o sorted

RECURSIVE SortByRelevance_Ascending(_, _, _)
SortByRelevance_Ascending(entries, current_topic, now) ==
    IF entries = << >>
    THEN << >>
    ELSE LET rest == SortByRelevance_Ascending(SubSeq(entries, 1, Len(entries) - 1),
                                               current_topic, now)
             last == entries[Len(entries)]
             before == SelectSeq(rest, LAMBDA e :
                          RelevanceScore(e, current_topic, now)
                            <= RelevanceScore(last, current_topic, now))
             after == SelectSeq(rest, LAMBDA e :
                          RelevanceScore(e, current_topic, now)
                            > RelevanceScore(last, current_topic, now))
         IN  before \o << last >> \o after

RECURSIVE SortByRelevance(_, _, _)
SortByRelevance(entries, current_topic, now) ==
    IF entries = << >>
    THEN << >>
    ELSE InsertByRelevance(
             SortByRelevance(SubSeq(entries, 1, Len(entries) - 1), current_topic, now),
             entries[Len(entries)], current_topic, now)

\* MemoryManager.get_relevant_context
RelevantContext(memory, current_topic, limit, now) ==
    IF memory = << >>
    THEN << >>
    ELSE PySliceFirst(SortByRelevance(memory, current_topic, now), limit)

ContextIdle ==
    /\ ctx_query = NoQuery
    /\ relevant_context = << >>

\* MemoryManager.add_conversation with an entry that carries a message and
\* context tags.  The memory is filled before it is queried: an append
\* after a query would leave the query's result as it is.
add_tagged_conversation ==
    /\ appended < MaxContextEntries
    /\ ctx_query = NoQuery
    /\ \E day \in EntryDays, message \in ContextMessages, tags \in TagLists,
          eff \in EffChoices :
          LET entry == [timestamp |-> day, message |-> message,
                        context_tags |-> tags, effectiveness_score |-> eff]
          IN  /\ conversation_memory' =
                    AddConversationResult(conversation_memory, max_memory_size, entry)
              /\ appended_tail' = PySliceLast(Append(appended_tail, entry), RecentKeep)
    /\ appended' = appended + 1
    /\ UNCHANGED <<max_memory_size, moodVars, relVars, engVars, peVars, ctxVars, anVars, httpVars, srvVars>>

\* MemoryManager.get_relevant_context(roommate, current_topic, limit).  The
\* call only reads the memory, so one call is followed per behaviour.
get_relevant_context ==
    /\ ctx_query = NoQuery
    /\ \E current_topic \in ContextTopics, limit \in 0..MaxLimit, now \in NowDays :
          /\ ctx_query' = [current_topic |-> current_topic, limit |-> limit, now |-> now]
          /\ relevant_context' =
                RelevantContext(conversation_memory, current_topic, limit, now)
    /\ UNCHANGED <<memVars, moodVars, relVars, engVars, peVars, anVars, httpVars, srvVars>>

ContextNext ==
    \/ add_tagged_conversation
    \/ get_relevant_context

-----------------------------------------------------------------------------
(* Engine                                                                  *)

MaxTurns == 1
MaxHistory == 10
ContextWindow == 6
CliMaxRoasts == 4
RoommateOrder == << "CodeMaster", "SavageBurn", "UncleJi", "ChefCritic" >>
Roommates == { RoommateOrder[i] : i \in 1..Len(RoommateOrder) }
EngineMessages == { "hello there" }

\* random.sample(population, k): k distinct members, in any order.
Samples(population, k) ==
    { s \in [1..k -> population] : \A i, j \in 1..k : i # j => s[i] # s[j] }

\* A history left by earlier turns: ten lines, numbered in the order they
\* were added.
Numerals == << "1", "2", "3", "4", "5", "6", "7", "8", "9", "10" >>
EarlierLine(i) ==
    Line(IF i % 5 = 1 THEN "You" ELSE RoommateOrder[(i % Len(RoommateOrder)) + 1],
         << "earlier", Numerals[i] >>)
EarlierHistory == [i \in 1..MaxHistory |-> EarlierLine(i)]
PriorHistories == { << >>, EarlierHistory }

NoRequest == [speaker |-> "", target |-> "", context |-> << >>]

\* Engine._add_to_history keeping the oldest max_history lines.
add_to_history_KeepOldest(history, message) ==
    LET h1 == Append(history, message)
    IN  IF Len(h1) > MaxHistory THEN SubSeq(h1, 1, MaxHistory) ELSE h1

\* Engine._add_to_history
add_to_history(history, message) ==
    LET h1 == Append(history, message)
    IN  IF Len(h1) > MaxHistory THEN PySliceLast(h1, MaxHistory) ELSE h1

\* Engine._build_context with a window of three lines.
build_context_Short(history) ==
    IF history = << >> THEN << >> ELSE PySliceLast(history, 3)

\* Engine._build_context: the lines listed under "RECENT CONVERSATION:";
\* none at the start of the conversation.
build_context(history) ==
    IF history = << >> THEN << >> ELSE PySliceLast(history, ContextWindow)

\* Engine.primary / roast / primary_stream / roast_stream up to the call of
\* the backend: the system prompt carries the context.
BuildRequest(name, target, history) ==
    [speaker |-> name, target |-> target, context |-> build_context(history)]

EngineIdle ==
    /\ max_roasts_per_turn = CliMaxRoasts
    /\ roommates = Roommates
    /\ conversation_history = << >>
    /\ eng_turns = 0
    /\ eng_pc = "idle"
    /\ eng_mode = "none"
    /\ eng_user_msg = ""
    /\ eng_primary = ""
    /\ eng_roasters = << >>
    /\ eng_k = 0
    /\ eng_request = NoRequest
    /\ lines = << >>
    /\ response_parts = << >>
    /\ prov_pos = 0
    /\ eng_yielded = << >>
    /\ eng_hist_adds = 0
    /\ eng_outcome = "none"

EngineInit ==
    /\ max_roasts_per_turn = CliMaxRoasts
    /\ roommates = Roommates
    /\ conversation_history \in PriorHistories
    /\ eng_turns = 0
    /\ eng_pc = "idle"
    /\ eng_mode = "none"
    /\ eng_user_msg = ""
    /\ eng_primary = ""
    /\ eng_roasters = << >>
    /\ eng_k = 0
    /\ eng_request = NoRequest
    /\ lines = << >>
    /\ response_parts = << >>
    /\ prov_pos = 0
    /\ eng_yielded = << >>
    /\ eng_hist_adds = 0
    /\ eng_outcome = "none"

\* Engines built over other pools and limits: Engine(roommates, backend,
\* max_roasts_per_turn=m) for pools of 1..MaxPoolSize personas and
\* m in 1..MaxRoastsLimit, before the first turn.
MaxPoolSize == 3
MaxRoastsLimit == 3
Pools == { { RoommateOrder[i] : i \in 1..n } : n \in 1..MaxPoolSize }

PoolInit ==
    /\ max_roasts_per_turn \in 1..MaxRoastsLimit
    /\ roommates \in Pools
    /\ conversation_history = << >>
    /\ eng_turns = 0
    /\ eng_pc = "idle"
    /\ eng_mode = "none"
    /\ eng_user_msg = ""
    /\ eng_primary = ""
    /\ eng_roasters = << >>
    /\ eng_k = 0
    /\ eng_request = NoRequest
    /\ lines = << >>
    /\ response_parts = << >>
    /\ prov_pos = 0
    /\ eng_yielded = << >>
    /\ eng_hist_adds = 0
    /\ eng_outcome = "none"

\* The turn ends: it returns, its generator is exhausted or closed, or an
\* exception leaves it.
EngineEnds(outcome) ==
    /\ eng_pc' = "done"
    /\ eng_outcome' = outcome
    /\ eng_request' = NoRequest

\* engine.py 110-115 and 221-226: after the primary's line the roasters are
\* sampled, n is drawn and the first roast is requested.  random.randint
\* raises ValueError when its range is empty.  next_pc is where the turn is
\* suspended once the request is built.
StartRoasts(history, next_pc) ==
    LET k == Min2(Cardinality(roommates), max_roasts_per_turn)
        hi == Min2(max_roasts_per_turn, k)
    IN  IF hi < 2
        THEN /\ EngineEnds("ValueError")
             /\ UNCHANGED <<eng_roasters, eng_k, response_parts, prov_pos>>
        ELSE \E roasters \in Samples(roommates, k), n \in 2..hi,
                tgt \in {"you", eng_primary} :
                /\ eng_roasters' = SubSeq(roasters, 1, n)
                /\ eng_request' = BuildRequest(roasters[1], tgt, history)
                /\ eng_k' = 2
                /\ eng_pc' = next_pc
                /\ response_parts' = << >>
                /\ prov_pos' = 0
                /\ UNCHANGED eng_outcome

\* The next roaster of the loop `for r in roasters[:n]`.
NextRoast(history, next_pc) ==
    \E tgt \in {"you", eng_primary} :
        /\ eng_request' = BuildRequest(eng_roasters[eng_k], tgt, history)
        /\ eng_k' = eng_k + 1
        /\ eng_pc' = next_pc
        /\ response_parts' = << >>
        /\ prov_pos' = 0
        /\ UNCHANGED <<eng_roasters, eng_outcome>>

\* Engine.turn, from the call to the primary's request (engine.py 98-104).
turn ==
    /\ eng_pc \in {"idle", "done"}
    /\ eng_turns < MaxTurns
    /\ \E user_msg \in EngineMessages, primary \in roommates :
        LET h1 == add_to_history(conversation_history, UserLine(user_msg))
        IN  /\ lines' = << UserLine(user_msg) >>
            /\ conversation_history' = h1
            /\ eng_user_msg' = user_msg
            /\ eng_primary' = primary
            /\ eng_request' = BuildRequest(primary, "", h1)
    /\ eng_turns' = eng_turns + 1
    /\ eng_pc' = "generate"
    /\ eng_mode' = "turn"
    /\ eng_k' = 1
    /\ eng_roasters' = << >>
    /\ eng_hist_adds' = 1
    /\ eng_outcome' = "none"
    /\ eng_yielded' = << >>
    /\ response_parts' = << >>
    /\ prov_pos' = 0
    /\ UNCHANGED <<max_roasts_per_turn, roommates, memVars, moodVars, relVars, peVars, ctxVars, anVars, httpVars, srvVars>>

\* backend.generate returns: the line is made of the stripped text, appended
\* to `lines` and to the history, and the turn goes on to the next request
\* or returns `lines` (engine.py 76-77, 93-94, 105-121).
generate_returns ==
    /\ eng_pc = "generate"
    /\ \E raw \in RawTexts :
        LET response == Line(eng_request.speaker, Strip(raw))
            h1 == add_to_history(conversation_history, response)
        IN  /\ lines' = Append(lines, response)
            /\ conversation_history' = h1
            /\ IF eng_k = 1
               THEN StartRoasts(h1, "generate")
               ELSE IF eng_k - 1 < Len(eng_roasters)
                    THEN NextRoast(h1, "generate")
                    ELSE /\ EngineEnds("returned")
                         /\ UNCHANGED <<eng_roasters, eng_k, response_parts, prov_pos>>
    /\ eng_hist_adds' = eng_hist_adds + 1
    /\ UNCHANGED <<max_roasts_per_turn, roommates, eng_turns, eng_mode, eng_user_msg,
                   eng_primary, eng_yielded, memVars, moodVars, relVars, peVars, ctxVars, anVars, httpVars, srvVars>>

\* backend.generate raises: nothing in primary, roast or turn catches the
\* exception, so it leaves turn.
generate_raises ==
    /\ eng_pc = "generate"
    /\ EngineEnds("backend_error")
    /\ UNCHANGED <<max_roasts_per_turn, roommates, conversation_history, eng_turns, eng_mode,
                   eng_user_msg, eng_primary, eng_roasters, eng_k, lines,
                   response_parts, prov_pos, eng_yielded, eng_hist_adds,
                   memVars, moodVars, relVars, peVars, ctxVars, anVars, httpVars, srvVars>>

\* Engine.turn_stream is called and its consumer takes the first fragment,
\* the user's line (engine.py 211).
turn_stream ==
    /\ eng_pc \in {"idle", "done"}
    /\ eng_turns < MaxTurns
    /\ \E user_msg \in EngineMessages :
        /\ eng_user_msg' = user_msg
        /\ eng_yielded' = << UserFrag(user_msg) >>
    /\ eng_turns' = eng_turns + 1
    /\ eng_pc' = "yield_user"
    /\ eng_mode' = "turn_stream"
    /\ eng_k' = 0
    /\ eng_primary' = ""
    /\ eng_roasters' = << >>
    /\ eng_request' = NoRequest
    /\ eng_hist_adds' = 0
    /\ eng_outcome' = "none"
    /\ lines' = << >>
    /\ response_parts' = << >>
    /\ prov_pos' = 0
    /\ UNCHANGED <<max_roasts_per_turn, roommates, conversation_history,
                   memVars, moodVars, relVars, peVars, ctxVars, anVars, httpVars, srvVars>>

\* The consumer resumes the generator after the user's line: the line is
\* added to the history, the primary is chosen, primary_stream builds its
\* prompt and yields the speaker prefix (engine.py 214-217, 155-168).
stream_primary ==
    /\ eng_pc = "yield_user"
    /\ \E primary \in roommates :
        LET h1 == add_to_history(conversation_history, UserLine(eng_user_msg))
        IN  /\ conversation_history' = h1
            /\ eng_primary' = primary
            /\ eng_request' = BuildRequest(primary, "", h1)
            /\ eng_yielded' = Append(eng_yielded, PrefixFrag(primary))
    /\ eng_pc' = "yield_prefix"
    /\ eng_k' = 1
    /\ eng_hist_adds' = eng_hist_adds + 1
    /\ response_parts' = << >>
    /\ prov_pos' = 0
    /\ UNCHANGED <<max_roasts_per_turn, roommates, eng_turns, eng_mode, eng_user_msg,
                   eng_roasters, lines, eng_outcome,
                   memVars, moodVars, relVars, peVars, ctxVars, anVars, httpVars, srvVars>>

\* The provider produces its next chunk: _gen_stream drops an empty one, any
\* other is appended to response_parts and yielded (engine.py 145-147,
\* 171-173, 196-198).
stream_chunk ==
    /\ eng_pc \in {"yield_prefix", "yield_chunk"}
    /\ prov_pos < MaxChunks
    /\ prov_pos' = prov_pos + 1
    /\ LET chunk == ChunkAt(prov_pos + 1)
       IN  IF chunk = << >>
           THEN UNCHANGED <<response_parts, eng_yielded, eng_pc>>
           ELSE /\ response_parts' = Append(response_parts, chunk)
                /\ eng_yielded' = Append(eng_yielded, ChunkFrag(chunk))
                /\ eng_pc' = "yield_chunk"
    /\ UNCHANGED <<max_roasts_per_turn, roommates, conversation_history, eng_turns, eng_mode,
                   eng_user_msg, eng_primary, eng_roasters, eng_k, eng_request,
                   lines, eng_hist_adds, eng_outcome,
                   memVars, moodVars, relVars, peVars, ctxVars, anVars, httpVars, srvVars>>

\* The provider's stream ends: the joined parts are added to the history as
\* the speaker's line, and turn_stream yields "\n" (engine.py 176-177,
\* 201-202, 219, 228).
stream_end ==
    /\ eng_pc \in {"yield_prefix", "yield_chunk"}
    /\ conversation_history' =
          add_to_history(conversation_history,
                         Line(eng_request.speaker, Join(response_parts)))
    /\ eng_hist_adds' = eng_hist_adds + 1
    /\ eng_yielded' = Append(eng_yielded, NewlineFrag)
    /\ eng_pc' = "yield_newline"
    /\ eng_request' = NoRequest
    /\ UNCHANGED <<max_roasts_per_turn, roommates, eng_turns, eng_mode, eng_user_msg,
                   eng_primary, eng_roasters, eng_k, lines, response_parts,
                   prov_pos, eng_outcome, memVars, moodVars, relVars, peVars, ctxVars, anVars, httpVars, srvVars>>

\* The provider raises while its stream is read: the exception leaves
\* primary_stream / roast_stream and turn_stream before the line is added.
stream_raises ==
    /\ eng_pc \in {"yield_prefix", "yield_chunk"}
    /\ EngineEnds("backend_error")
    /\ UNCHANGED <<max_roasts_per_turn, roommates, conversation_history, eng_turns, eng_mode,
                   eng_user_msg, eng_primary, eng_roasters, eng_k, lines,
                   response_parts, prov_pos, eng_yielded, eng_hist_adds,
                   memVars, moodVars, relVars, peVars, ctxVars, anVars, httpVars, srvVars>>

\* The consumer resumes the generator after a "\n": the next roaster's
\* prefix is yielded, or the generator is exhausted (engine.py 221-228).
stream_next ==
    /\ eng_pc = "yield_newline"
    /\ IF eng_k = 1
       THEN StartRoasts(conversation_history, "yield_prefix")
       ELSE IF eng_k - 1 < Len(eng_roasters)
            THEN NextRoast(conversation_history, "yield_prefix")
            ELSE /\ EngineEnds("exhausted")
                 /\ UNCHANGED <<eng_roasters, eng_k, response_parts, prov_pos>>
    /\ eng_yielded' = IF eng_pc' = "done" THEN eng_yielded
                      ELSE Append(eng_yielded, PrefixFrag(eng_request'.speaker))
    /\ UNCHANGED <<max_roasts_per_turn, roommates, conversation_history, eng_turns, eng_mode,
                   eng_user_msg, eng_primary, lines, eng_hist_adds,
                   memVars, moodVars, relVars, peVars, ctxVars, anVars, httpVars, srvVars>>

\* The consumer stops iterating: the generator is closed where it is
\* suspended, and none of its remaining code runs.
stream_close ==
    /\ eng_pc \in {"yield_user", "yield_prefix", "yield_chunk", "yield_newline"}
    /\ EngineEnds("closed")
    /\ UNCHANGED <<max_roasts_per_turn, roommates, conversation_history, eng_turns, eng_mode,
                   eng_user_msg, eng_primary, eng_roasters, eng_k, lines,
                   response_parts, prov_pos, eng_yielded, eng_hist_adds,
                   memVars, moodVars, relVars, peVars, ctxVars, anVars, httpVars, srvVars>>

EngineNext ==
    \/ turn
    \/ generate_returns
    \/ generate_raises
    \/ turn_stream
    \/ stream_primary
    \/ stream_chunk
    \/ stream_end
    \/ stream_raises
    \/ stream_next
    \/ stream_close

-----------------------------------------------------------------------------
(* PersonalityEngine                                                       *)

\* ConversationAnalyzer.analyze_message on the messages of UserMessages.
Analysis(user_message) ==
    CASE user_message = "I love this great day" ->
            [topics |-> << "relationships", "food" >>, sentiment |-> 10,
             question_count |-> 0, urgency |-> 0]
      [] user_message = "this is so bad and terrible" ->
            [topics |-> << >>, sentiment |-> -10,
             question_count |-> 0, urgency |-> 0]
      [] user_message = "help!!! this is urgent" ->
            [topics |-> << >>, sentiment |-> 0,
             question_count |-> 0, urgency |-> 10]
      [] OTHER ->
            [topics |-> << >>, sentiment |-> 0,
             question_count |-> 0, urgency |-> 0]

\* topic_preferences of _choose_primary_responder.
TopicPreferences(topic) ==
    CASE topic = "technology" -> {"CodeMaster"}
      [] topic = "career" -> {"CodeMaster", "UncleJi"}
      [] topic = "food" -> {"ChefCritic", "UncleJi"}
      [] topic = "entertainment" -> {"BeatDrop", "SavageBurn"}
      [] topic = "money" -> {"PennyPincher", "UncleJi"}
      [] topic = "relationships" -> {"UncleJi", "QuietStorm"}
      [] topic = "health" -> {"ChefCritic", "BeatDrop"}
      [] OTHER -> {}

\* _choose_primary_responder: the roommates random.choice draws from.
InterestedRoommates(analysis) ==
    LET by_topic == { r \in Roommates :
                        \E i \in 1..Len(analysis.topics) :
                            r \in TopicPreferences(analysis.topics[i]) }
        by_trait ==
            IF analysis.sentiment < -5
            THEN Roommates \cap {"SavageBurn", "DeepThought"}
            ELSE IF analysis.question_count > 0
                 THEN Roommates \cap {"UncleJi", "CodeMaster", "DeepThought"}
                 ELSE IF analysis.urgency > 5
                      THEN Roommates \cap {"SavageBurn", "ChaosKing"}
                      ELSE {}
        interested == IF by_topic # {} THEN by_topic ELSE by_trait
    IN  IF interested # {} THEN interested ELSE Roommates

\* create_flatshare_chaos_roommates: the score roommate starts with for
\* other, from the wording of get_personality_interactions.
InitialScore(roommate, other) ==
    CASE roommate = "CodeMaster" /\ other = "SavageBurn" -> 65
      [] roommate = "SavageBurn" /\ other = "CodeMaster" -> 10
      [] roommate = "SavageBurn" /\ other = "UncleJi" -> 35
      [] roommate = "UncleJi" /\ other = "CodeMaster" -> 65
      [] roommate = "UncleJi" /\ other = "SavageBurn" -> 35
      [] roommate = "UncleJi" /\ other = "ChefCritic" -> 35
      [] OTHER -> 50

InitialRelationships ==
    [r \in Roommates |-> [o \in Roommates \ {r} |-> InitialScore(r, o)]]

RoastPlaceholder == << "[roast]" >>
RoastSentiment == -3

\* ConversationEntry(speaker, message, context_tags, sentiment)
Entry(speaker, message, analysis, sentiment) ==
    [speaker |-> speaker, message |-> message,
     context_tags |-> analysis.topics, sentiment |-> sentiment]

UserEntry(user_message) ==
    Entry("user", << user_message >>, Analysis(user_message),
          Analysis(user_message).sentiment)

\* PersonalityEngine._update_relationships
UpdateRelationships(rels, primary, roasters, analysis) ==
    LET roasting == { roasters[i] : i \in 1..Len(roasters) }
        step == IF analysis.sentiment > 3 THEN 2
                ELSE IF analysis.sentiment < -3 THEN -1 ELSE 0
    IN  [rels EXCEPT ![primary] =
            [o \in DOMAIN rels[primary] |->
                IF o \in roasting
                THEN Max2(ScoreMin, Min2(ScoreMax, rels[primary][o] + step))
                ELSE rels[primary][o]]]

\* The speaker whose request the backend is serving.
PeSpeaker == IF pe_k = 1 THEN pe_primary ELSE pe_roasters[pe_k - 1]

PersonalityIdle ==
    /\ interaction_history = << >>
    /\ relationships = InitialRelationships
    /\ has_generate_stream = FALSE
    /\ pe_turns = 0
    /\ pe_pc = "idle"
    /\ pe_mode = "none"
    /\ pe_user_msg = ""
    /\ pe_primary = ""
    /\ pe_roasters = << >>
    /\ pe_k = 0
    /\ pe_target = ""
    /\ responses = << >>
    /\ pe_prov_pos = 0
    /\ pe_yielded = << >>
    /\ pe_outcome = "none"

PersonalityInit ==
    /\ interaction_history = << >>
    /\ relationships = InitialRelationships
    /\ has_generate_stream \in BOOLEAN
    /\ pe_turns = 0
    /\ pe_pc = "idle"
    /\ pe_mode = "none"
    /\ pe_user_msg = ""
    /\ pe_primary = ""
    /\ pe_roasters = << >>
    /\ pe_k = 0
    /\ pe_target = ""
    /\ responses = << >>
    /\ pe_prov_pos = 0
    /\ pe_yielded = << >>
    /\ pe_outcome = "none"

\* The turn ends.  When it runs to its end, _update_relationships is its
\* last statement (personality_engine.py 365, 517).
PeEnds(outcome) ==
    /\ pe_pc' = "done"
    /\ pe_outcome' = outcome
    /\ pe_target' = ""
    /\ relationships' =
          IF outcome \in {"returned", "exhausted"}
          THEN UpdateRelationships(relationships, pe_primary, pe_roasters',
                                   Analysis(pe_user_msg))
          ELSE relationships

\* personality_engine.py 343-349 and 477-482: the roasters are sampled from
\* the roommates other than the primary and the first target is drawn.
PeStartRoasts(ended, next_pc) ==
    LET potential_roasters == Roommates \ {pe_primary}
    IN  \E draw \in 2..4 :
          LET num_roasters == Min2(draw, Cardinality(potential_roasters))
          IN  \E roasters \in Samples(potential_roasters, num_roasters) :
                /\ pe_roasters' = roasters
                /\ IF num_roasters = 0
                   THEN /\ PeEnds(ended)
                        /\ UNCHANGED pe_k
                   ELSE /\ \E target \in {"you", pe_primary} : pe_target' = target
                        /\ pe_k' = 2
                        /\ pe_pc' = next_pc
                        /\ UNCHANGED <<pe_outcome, relationships>>

\* The next roaster of the loop `for roaster in roasters`, or its end.
PeNextRoast(ended, next_pc) ==
    IF pe_k - 1 < Len(pe_roasters)
    THEN /\ \E target \in {"you", pe_primary} : pe_target' = target
         /\ pe_k' = pe_k + 1
         /\ pe_pc' = next_pc
         /\ UNCHANGED <<pe_roasters, pe_outcome, relationships>>
    ELSE /\ UNCHANGED <<pe_roasters, pe_k>>
         /\ PeEnds(ended)

\* PersonalityEngine.personality_turn, from the call to the primary's
\* request (personality_engine.py 313-322, 198-209).
personality_turn ==
    /\ pe_pc \in {"idle", "done"}
    /\ pe_turns < MaxTurns
    /\ \E user_message \in UserMessages :
        /\ pe_user_msg' = user_message
        /\ responses' = << UserLine(user_message) >>
        /\ \E primary \in InterestedRoommates(Analysis(user_message)) :
              pe_primary' = primary
    /\ pe_turns' = pe_turns + 1
    /\ pe_pc' = "generate"
    /\ pe_mode' = "personality_turn"
    /\ pe_k' = 1
    /\ pe_roasters' = << >>
    /\ pe_target' = ""
    /\ pe_prov_pos' = 0
    /\ pe_yielded' = << >>
    /\ pe_outcome' = "none"
    /\ UNCHANGED <<interaction_history, relationships, has_generate_stream,
                   memVars, moodVars, relVars, engVars, ctxVars, anVars, httpVars, srvVars>>

\* backend.generate returns to personality_turn: the stripped text is the
\* speaker's line; after the primary's, the user's and the primary's entries
\* are appended to the history; after a roaster's, the roaster's
\* (personality_engine.py 323-367).
personality_generate_returns ==
    /\ pe_pc = "generate"
    /\ pe_mode = "personality_turn"
    /\ \E raw \in RawTexts :
        LET text == Strip(raw)
            analysis == Analysis(pe_user_msg)
        IN  /\ responses' = Append(responses, Line(PeSpeaker, text))
            /\ IF pe_k = 1
               THEN /\ interaction_history' =
                          interaction_history \o
                          << UserEntry(pe_user_msg),
                             Entry(pe_primary, text, analysis, 0) >>
                    /\ PeStartRoasts("returned", "generate")
               ELSE /\ interaction_history' =
                          Append(interaction_history,
                                 Entry(PeSpeaker, text, analysis, RoastSentiment))
                    /\ PeNextRoast("returned", "generate")
    /\ UNCHANGED <<has_generate_stream, pe_turns, pe_mode, pe_user_msg,
                   pe_primary, pe_prov_pos, pe_yielded,
                   memVars, moodVars, relVars, engVars, ctxVars, anVars, httpVars, srvVars>>

\* backend.generate raises: nothing in get_personality_response,
\* generate_roast, personality_turn or personality_turn_stream catches the
\* exception, so it leaves the turn.
personality_generate_raises ==
    /\ pe_pc = "generate"
    /\ PeEnds("backend_error")
    /\ UNCHANGED <<interaction_history, has_generate_stream, pe_turns, pe_mode,
                   pe_user_msg, pe_primary, pe_roasters, pe_k, responses,
                   pe_prov_pos, pe_yielded, memVars, moodVars, relVars, engVars, ctxVars, anVars, httpVars, srvVars>>

\* personality_turn_stream is called and its consumer takes the first
\* fragment, the user's line (personality_engine.py 437).
personality_turn_stream ==
    /\ pe_pc \in {"idle", "done"}
    /\ pe_turns < MaxTurns
    /\ \E user_message \in UserMessages :
        /\ pe_user_msg' = user_message
        /\ pe_yielded' = << UserFrag(user_message) >>
    /\ pe_turns' = pe_turns + 1
    /\ pe_pc' = "yield_user"
    /\ pe_mode' = "personality_turn_stream"
    /\ pe_k' = 0
    /\ pe_primary' = ""
    /\ pe_roasters' = << >>
    /\ pe_target' = ""
    /\ pe_prov_pos' = 0
    /\ responses' = << >>
    /\ pe_outcome' = "none"
    /\ UNCHANGED <<interaction_history, relationships, has_generate_stream,
                   memVars, moodVars, relVars, engVars, ctxVars, anVars, httpVars, srvVars>>

\* The consumer resumes after the user's line: the primary is chosen and
\* its prefix yielded (personality_engine.py 440-444).
personality_stream_primary ==
    /\ pe_pc = "yield_user"
    /\ \E primary \in InterestedRoommates(Analysis(pe_user_msg)) :
        /\ pe_primary' = primary
        /\ pe_yielded' = Append(pe_yielded, PrefixFrag(primary))
    /\ pe_pc' = "yield_prefix"
    /\ pe_k' = 1
    /\ pe_prov_pos' = 0
    /\ UNCHANGED <<interaction_history, relationships, has_generate_stream,
                   pe_turns, pe_mode, pe_user_msg, pe_roasters, pe_target,
                   responses, pe_outcome, memVars, moodVars, relVars, engVars, ctxVars, anVars, httpVars, srvVars>>

\* backend.generate_stream produces its next chunk; an empty one is dropped,
\* any other is yielded (personality_engine.py 452-459, 492-499).
personality_stream_chunk ==
    /\ pe_pc \in {"yield_prefix", "yield_chunk"}
    /\ has_generate_stream
    /\ pe_prov_pos < MaxChunks
    /\ pe_prov_pos' = pe_prov_pos + 1
    /\ LET chunk == ChunkAt(pe_prov_pos + 1)
       IN  IF chunk = << >>
           THEN UNCHANGED <<pe_yielded, pe_pc>>
           ELSE /\ pe_yielded' = Append(pe_yielded, ChunkFrag(chunk))
                /\ pe_pc' = "yield_chunk"
    /\ UNCHANGED <<interaction_history, relationships, has_generate_stream,
                   pe_turns, pe_mode, pe_user_msg, pe_primary, pe_roasters, pe_k,
                   pe_target, responses, pe_outcome,
                   memVars, moodVars, relVars, engVars, ctxVars, anVars, httpVars, srvVars>>

\* backend.generate_stream ends: "\n" is yielded (personality_engine.py 465,
\* 505).
personality_stream_end ==
    /\ pe_pc \in {"yield_prefix", "yield_chunk"}
    /\ has_generate_stream
    /\ pe_yielded' = Append(pe_yielded, NewlineFrag)
    /\ pe_pc' = "yield_newline"
    /\ UNCHANGED <<interaction_history, relationships, has_generate_stream,
                   pe_turns, pe_mode, pe_user_msg, pe_primary, pe_roasters, pe_k,
                   pe_target, responses, pe_prov_pos, pe_outcome,
                   memVars, moodVars, relVars, engVars, ctxVars, anVars, httpVars, srvVars>>

\* backend.generate_stream raises while it is read.
personality_stream_raises ==
    /\ pe_pc \in {"yield_prefix", "yield_chunk"}
    /\ has_generate_stream
    /\ PeEnds("backend_error")
    /\ UNCHANGED <<interaction_history, has_generate_stream, pe_turns, pe_mode,
                   pe_user_msg, pe_primary, pe_roasters, pe_k, responses,
                   pe_prov_pos, pe_yielded, memVars, moodVars, relVars, engVars, ctxVars, anVars, httpVars, srvVars>>

\* Without generate_stream the consumer's resumption after the prefix calls
\* backend.generate (personality_engine.py 460-462, 500-502).
personality_stream_fallback ==
    /\ pe_pc = "yield_prefix"
    /\ ~has_generate_stream
    /\ pe_pc' = "generate"
    /\ UNCHANGED <<interaction_history, relationships, has_generate_stream,
                   pe_turns, pe_mode, pe_user_msg, pe_primary, pe_roasters, pe_k,
                   pe_target, responses, pe_prov_pos, pe_yielded, pe_outcome,
                   memVars, moodVars, relVars, engVars, ctxVars, anVars, httpVars, srvVars>>

\* backend.generate returns to the fallback: the stripped text is yielded as
\* one fragment (personality_engine.py 463, 503).
personality_fallback_returns ==
    /\ pe_pc = "generate"
    /\ pe_mode = "personality_turn_stream"
    /\ \E raw \in RawTexts :
          pe_yielded' = Append(pe_yielded, ChunkFrag(Strip(raw)))
    /\ pe_pc' = "yield_response"
    /\ UNCHANGED <<interaction_history, relationships, has_generate_stream,
                   pe_turns, pe_mode, pe_user_msg, pe_primary, pe_roasters, pe_k,
                   pe_target, responses, pe_prov_pos, pe_outcome,
                   memVars, moodVars, relVars, engVars, ctxVars, anVars, httpVars, srvVars>>

\* The consumer resumes after the fallback's fragment: "\n" is yielded.
personality_fallback_newline ==
    /\ pe_pc = "yield_response"
    /\ pe_yielded' = Append(pe_yielded, NewlineFrag)
    /\ pe_pc' = "yield_newline"
    /\ UNCHANGED <<interaction_history, relationships, has_generate_stream,
                   pe_turns, pe_mode, pe_user_msg, pe_primary, pe_roasters, pe_k,
                   pe_target, responses, pe_prov_pos, pe_outcome,
                   memVars, moodVars, relVars, engVars, ctxVars, anVars, httpVars, srvVars>>

\* The consumer resumes after a "\n".  After the primary's, the user's entry
\* is appended to the history and the roasters are sampled; after a
\* roaster's, an entry with the placeholder message is appended.  Then the
\* next roaster's prefix is yielded, or the generator is exhausted
\* (personality_engine.py 467-517).
personality_stream_next ==
    /\ pe_pc = "yield_newline"
    /\ IF pe_k = 1
       THEN /\ interaction_history' =
                  Append(interaction_history, UserEntry(pe_user_msg))
            /\ PeStartRoasts("exhausted", "yield_prefix")
       ELSE /\ interaction_history' =
                  Append(interaction_history,
                         Entry(PeSpeaker, RoastPlaceholder,
                               Analysis(pe_user_msg), RoastSentiment))
            /\ PeNextRoast("exhausted", "yield_prefix")
    /\ pe_yielded' = IF pe_pc' = "done" THEN pe_yielded
                     ELSE Append(pe_yielded, PrefixFrag(pe_roasters'[pe_k' - 1]))
    /\ pe_prov_pos' = 0
    /\ UNCHANGED <<has_generate_stream, pe_turns, pe_mode, pe_user_msg,
                   pe_primary, responses, memVars, moodVars, relVars, engVars, ctxVars, anVars, httpVars, srvVars>>

\* The consumer stops iterating: the generator is closed where it is
\* suspended.
personality_stream_close ==
    /\ pe_pc \in {"yield_user", "yield_prefix", "yield_chunk", "yield_response",
                  "yield_newline"}
    /\ PeEnds("closed")
    /\ UNCHANGED <<interaction_history, has_generate_stream, pe_turns, pe_mode,
                   pe_user_msg, pe_primary, pe_roasters, pe_k, responses,
                   pe_prov_pos, pe_yielded, memVars, moodVars, relVars, engVars, ctxVars, anVars, httpVars, srvVars>>

PersonalityNext ==
    \/ personality_turn
    \/ personality_generate_returns
    \/ personality_generate_raises
    \/ personality_turn_stream
    \/ personality_stream_primary
    \/ personality_stream_chunk
    \/ personality_stream_end
    \/ personality_stream_raises
    \/ personality_stream_fallback
    \/ personality_fallback_returns
    \/ personality_fallback_newline
    \/ personality_stream_next
    \/ personality_stream_close

-----------------------------------------------------------------------------
(* ConversationAnalyzer (app/conversation_analyzer.py)                     *)

\* the characters of a string
Chars(s) == [i \in 1..Len(s) |-> SubSeq(s, i, i)]

CharsOfAll(strings) == { Chars(w) : w \in strings }

\* _load_topic_keywords, in the order of the dict
TopicOrder ==
    << "career", "relationships", "food", "technology", "health", "money",
       "education", "entertainment", "family", "travel" >>
topic_keywords ==
    [career |-> CharsOfAll({"job", "work", "career", "boss", "office", "salary",
                            "promotion", "interview", "resume"}),
     relationships |-> CharsOfAll({"girlfriend", "boyfriend", "dating", "love",
                                   "crush", "relationship", "marriage", "single"}),
     food |-> CharsOfAll({"eat", "food", "cook", "recipe", "restaurant", "hungry",
                          "dinner", "lunch", "breakfast"}),
     technology |-> CharsOfAll({"computer", "phone", "app", "software", "coding",
                                "programming", "tech", "internet"}),
     health |-> CharsOfAll({"gym", "exercise", "diet", "sick", "doctor", "medicine",
                            "fitness", "workout"}),
     money |-> CharsOfAll({"money", "expensive", "cheap", "budget", "broke", "rich",
                           "cost", "price", "financial"}),
     education |-> CharsOfAll({"school", "study", "exam", "college", "university",
                               "degree", "learning", "homework"}),
     entertainment |-> CharsOfAll({"movie", "music", "game", "tv", "show", "book",
                                   "party", "fun", "weekend"}),
     family |-> CharsOfAll({"family", "parents", "mom", "dad", "sister", "brother",
                            "relatives", "home"}),
     travel |-> CharsOfAll({"travel", "vacation", "trip", "flight", "hotel", "visit",
                            "explore", "journey"})]

\* _load_sentiment_indicators: the lists analyze_message reads
sentiment_indicators ==
    [positive |-> CharsOfAll({"good", "great", "awesome", "amazing", "love", "happy",
                              "excited", "wonderful", "fantastic", "excellent"}),
     negative |-> CharsOfAll({"bad", "terrible", "awful", "hate", "sad", "angry",
                              "frustrated", "disappointed", "worried", "stressed"}),
     questions |-> CharsOfAll({"?", "what", "how", "why", "when", "where", "who",
                               "which", "should i", "can you"})]

\* _load_behavioral_patterns, in the order of the dict
BehaviorOrder ==
    << "indecisive", "complainer", "perfectionist", "procrastinator",
       "overachiever", "social", "introvert" >>
behavioral_patterns ==
    [indecisive |-> CharsOfAll({"i don't know", "not sure", "maybe", "what should i",
                                "help me decide"}),
     complainer |-> CharsOfAll({"always", "never", "everything", "nothing works",
                                "so annoying", "hate when"}),
     perfectionist |-> CharsOfAll({"perfect", "exactly", "precisely", "must be",
                                   "has to be", "should be"}),
     procrastinator |-> CharsOfAll({"later", "tomorrow", "eventually",
                                    "when i have time", "putting off"}),
     overachiever |-> CharsOfAll({"best", "top", "first", "win", "achieve", "goal",
                                  "success", "excel"}),
     social |-> CharsOfAll({"friends", "people", "everyone", "party", "hang out",
                            "meet up", "social"}),
     introvert |-> CharsOfAll({"alone", "quiet", "by myself", "don't like crowds",
                               "prefer", "stay in"})]

\* the list urgency_indicators of _detect_urgency
urgency_indicators ==
    CharsOfAll({"urgent", "asap", "immediately", "now", "quick", "fast", "hurry",
                "emergency", "!!!", "help!", "need", "must", "have to", "should",
                "important"})

\* the number of words of `words` that occur in the text
CountContained(words, text) ==
    Cardinality({ w \in words : Contains(w, text) })

\* str.count(c) for one character
CountChar(text, c) == Cardinality({ i \in 1..Len(text) : text[i] = c })

\* the maximal runs of the characters of a text marked in `keep` (one
\* Boolean per character), in order: str.split() keeps what is not
\* whitespace, re.findall(r'\b\w+\b') what is a word character
RunEnd(keep, i) ==
    CHOOSE j \in i..Len(keep) :
        /\ \A k \in i..j : keep[k]
        /\ (j = Len(keep) \/ ~keep[j + 1])
RECURSIVE RunsFrom(_, _, _)
RunsFrom(text, keep, i) ==
    IF i > Len(text) THEN << >>
    ELSE IF keep[i]
         THEN << SubSeq(text, i, RunEnd(keep, i)) >>
                 \o RunsFrom(text, keep, RunEnd(keep, i) + 1)
         ELSE RunsFrom(text, keep, i + 1)

IsNotWhitespace(c) == c \notin { " ", "\n", "\t", "\r" }
Split(text) == RunsFrom(text, [i \in 1..Len(text) |-> IsNotWhitespace(text[i])], 1)
FindWords(text) == RunsFrom(text, [i \in 1..Len(text) |-> IsWordChar(text[i])], 1)

\* str.isupper(): a cased character, and no lower-case one
IsUpper(word) ==
    /\ \E i \in 1..Len(word) : word[i] \in DOMAIN LowerOf
    /\ \A i \in 1..Len(word) :
          \A k \in 1..Len(LowerAlphabet) : word[i] # LowerAlphabet[k]

\* a float that is a quotient of two integers, in lowest terms
RECURSIVE GCD(_, _)
GCD(a, b) == IF b = 0 THEN a ELSE GCD(b, a % b)
Abs(x) == IF x < 0 THEN -x ELSE x
Quotient(num, den) ==
    LET g == GCD(Abs(num), den)
    IN  [num |-> num \div g, den |-> den \div g]

\* ConversationAnalyzer._detect_topics
detect_topics(message) ==
    SelectSeq(TopicOrder,
              LAMBDA topic : \E keyword \in topic_keywords[topic] :
                                Contains(keyword, message))

\* ConversationAnalyzer._analyze_sentiment: max(-1.0, min(1.0, net * 10))
analyze_sentiment(message) ==
    LET positive_count == CountContained(sentiment_indicators.positive, message)
        negative_count == CountContained(sentiment_indicators.negative, message)
        word_count == Len(Split(message))
        net10 == 10 * (positive_count - negative_count)
    IN  IF word_count = 0 THEN Quotient(0, 1)
        ELSE IF net10 > word_count THEN Quotient(1, 1)
        ELSE IF net10 < -word_count THEN Quotient(-1, 1)
        ELSE Quotient(net10, word_count)

\* ConversationAnalyzer._detect_urgency: min(1.0, urgency_count / 5.0)
detect_urgency(message) ==
    LET indicated == CountContained(urgency_indicators, message)
        exclaimed == IF Contains(Chars("!!!"), message) \/ CountChar(message, "!") > 2
                     THEN 2 ELSE 0
        words == Split(message)
        caps_words == Cardinality({ i \in 1..Len(words) :
                                      IsUpper(words[i]) /\ Len(words[i]) > 2 })
        urgency_count == indicated + exclaimed + caps_words
    IN  Quotient(Min2(5, urgency_count), 5)

\* ConversationAnalyzer._detect_repeated_phrases: the 2-word and then the
\* 3-word phrases that occur more than once, in the order of their first
\* occurrence, at most five of them
detect_repeated_phrases(message) ==
    LET words == FindWords(message)
        two == [i \in 1..Max2(0, Len(words) - 1) |-> SubSeq(words, i, i + 1)]
        three == [i \in 1..Max2(0, Len(words) - 2) |-> SubSeq(words, i, i + 2)]
        phrases == two \o three
        kept == { i \in 1..Len(phrases) :
                    /\ \A j \in 1..(i - 1) : phrases[j] # phrases[i]
                    /\ \E j \in (i + 1)..Len(phrases) : phrases[j] = phrases[i] }
        RECURSIVE Pick(_)
        Pick(i) == IF i > Len(phrases) THEN << >>
                   ELSE (IF i \in kept THEN << phrases[i] >> ELSE << >>) \o Pick(i + 1)
    IN  PySliceFirst(Pick(1), 5)

\* ConversationAnalyzer._detect_behavioral_flags
detect_behavioral_flags(message) ==
    SelectSeq(BehaviorOrder,
              LAMBDA behavior : \E indicator \in behavioral_patterns[behavior] :
                                    Contains(indicator, message))

\* The values a caller may pass as `message`: a str, or something else.
PyStr(s) == [type |-> "str", value |-> s]
None == [type |-> "NoneType"]
PyInt(n) == [type |-> "int", number |-> n]

\* How a call ends: it returns a value or an exception leaves it.
Returns(value) == [raised |-> "", value |-> value]
Raises(exception) == [raised |-> exception]
NotCalled == [raised |-> "not called"]

\* ConversationAnalyzer.analyze_message.  message.lower() is an attribute
\* of str: for a value of another type the lookup raises AttributeError.
analyze_message(message) ==
    IF message.type # "str"
    THEN Raises("AttributeError")
    ELSE LET text == Chars(message.value)
             message_lower == LowerText(text)
         IN  Returns(
                [topics |-> detect_topics(message_lower),
                 sentiment |-> analyze_sentiment(message_lower),
                 urgency |-> detect_urgency(message_lower),
                 question_count |->
                    CountChar(text, "?")
                    + CountContained(sentiment_indicators.questions, message_lower),
                 repeated_phrases |-> detect_repeated_phrases(message_lower),
                 behavioral_flags |-> detect_behavioral_flags(message_lower)])

\* The messages analysed: up to MaxWords words of the vocabulary, separated
\* by single spaces.
MaxWords == 3
Vocabulary == { "love", "bad", "why?", "JOB", "help!!!" }
RECURSIVE JoinWords(_)
JoinWords(words) ==
    IF words = << >> THEN ""
    ELSE IF Len(words) = 1 THEN words[1]
    ELSE words[1] \o " " \o JoinWords(Tail(words))
AnalyzerMessages ==
    { JoinWords(words) : words \in UNION { [1..n -> Vocabulary] : n \in 0..MaxWords } }
AnalyzerInputs ==
    { PyStr(s) : s \in AnalyzerMessages } \cup { None, PyInt(5) }

AnalyzerIdle ==
    /\ an_message = None
    /\ an_result = NotCalled

\* a call analyzer.analyze_message(message).  The analyzer keeps nothing
\* from one call to the next, so one call is followed per behaviour.
analyze ==
    /\ an_result = NotCalled
    /\ \E message \in AnalyzerInputs :
          /\ an_message' = message
          /\ an_result' = analyze_message(message)
    /\ UNCHANGED <<memVars, moodVars, relVars, engVars, peVars, ctxVars,
                   httpVars, srvVars>>

AnalyzerNext == analyze

-----------------------------------------------------------------------------

(* RealHTTPBackend.get_roasts (app/backend/real_http_backend.py)           *)

\* range(3): the attempts are numbered 0, 1, 2.
MaxAttempts == 3

\* What can end a POST attempt inside the try block: the connection fails
\* or times out in sess.post, raise_for_status rejects the status, r.json()
\* rejects the body, or the body has no "roasts".  All are Exceptions.
PostErrors ==
    { "ClientConnectorError", "TimeoutError", "ClientResponseError",
      "ContentTypeError", "KeyError" }

\* The values of data["roasts"] a server answers with.
RoastPayloads == { << >>, << "roast of Party Pete" >> }

Succeeded(roasts_) == [ok |-> TRUE, roasts |-> roasts_]
Failed(error) == [ok |-> FALSE, error |-> error]

\* asyncio.sleep(0.5) after every failure.
SleepTenths_Flat(attempt) == 5

\* 0.5 * (attempt + 1) seconds, in tenths of a second.
SleepTenths(attempt) == 5 * (attempt + 1)

HttpIdle ==
    /\ http_pc = "idle"
    /\ http_attempt = 0
    /\ http_posts = << >>
    /\ http_sleeps = << >>
    /\ http_result = NotCalled

\* get_roasts(text, spice, characters) is called: the payload and the
\* session are made and the first attempt starts.  The arguments go into
\* the payload of every attempt and decide nothing else, and the backend
\* keeps nothing from one call to the next, so one call is followed per
\* behaviour.
get_roasts ==
    /\ http_pc = "idle"
    /\ http_pc' = "post"
    /\ http_attempt' = 0
    /\ UNCHANGED <<http_posts, http_sleeps, http_result>>
    /\ UNCHANGED <<memVars, moodVars, relVars, engVars, peVars, ctxVars, anVars, srvVars>>

\* The POST of this attempt succeeds: data["roasts"] is returned.
post_returns ==
    /\ http_pc = "post"
    /\ \E roasts_ \in RoastPayloads :
          /\ http_posts' = Append(http_posts, Succeeded(roasts_))
          /\ http_result' = Returns(roasts_)
    /\ http_pc' = "done"
    /\ UNCHANGED <<http_attempt, http_sleeps>>
    /\ UNCHANGED <<memVars, moodVars, relVars, engVars, peVars, ctxVars, anVars, srvVars>>

\* The POST of this attempt raises: on attempt 2 the exception is raised
\* again, on the others the backend sleeps.
post_raises ==
    /\ http_pc = "post"
    /\ \E error \in PostErrors :
          /\ http_posts' = Append(http_posts, Failed(error))
          /\ IF http_attempt = 2
             THEN /\ http_result' = Raises(error)
                  /\ http_pc' = "done"
                  /\ UNCHANGED http_sleeps
             ELSE /\ http_sleeps' = Append(http_sleeps, SleepTenths(http_attempt))
                  /\ http_pc' = "sleep"
                  /\ UNCHANGED http_result
    /\ UNCHANGED http_attempt
    /\ UNCHANGED <<memVars, moodVars, relVars, engVars, peVars, ctxVars, anVars, srvVars>>

\* asyncio.sleep returns and the loop goes on to the next attempt; a loop
\* that ran out of attempts would end the function, which returns None.
sleep_returns ==
    /\ http_pc = "sleep"
    /\ IF http_attempt + 1 < MaxAttempts
       THEN /\ http_attempt' = http_attempt + 1
            /\ http_pc' = "post"
            /\ UNCHANGED http_result
       ELSE /\ http_result' = Returns(None)
            /\ http_pc' = "done"
            /\ UNCHANGED http_attempt
    /\ UNCHANGED <<http_posts, http_sleeps>>
    /\ UNCHANGED <<memVars, moodVars, relVars, engVars, peVars, ctxVars, anVars, srvVars>>

HttpNext ==
    \/ get_roasts
    \/ post_returns
    \/ post_raises
    \/ sleep_returns

-----------------------------------------------------------------------------

(* The /roast handler of the server (server/main.py)                       *)

MaxCharacters == 3

\* A character with a prompt of its own in CHAR_PROMPTS and one without;
\* the prompt is what goes to the model, whose answer is any of
\* OllamaResponses.
CharacterNames == { "Party Pete", "Stranger" }
CharacterLists == UNION { [1..n -> CharacterNames] : n \in 0..MaxCharacters }
Spices == { 2 }

\* data.get("response") of the model's answer (a missing or null field
\* counts as "").
OllamaResponses == { Chars(" Bold move!\nReally. "), Chars("") }
OllamaErrors == { "ConnectError", "HTTPStatusError" }

MaxRoastChars == 280
Placeholder == Chars("backend error, try again")

\* text.split("\n")[0]
FirstLine(text) ==
    IF \E i \in 1..Len(text) : text[i] = "\n"
    THEN SubSeq(text, 1, (CHOOSE i \in 1..Len(text) :
                            /\ text[i] = "\n"
                            /\ \A j \in 1..(i - 1) : text[j] # "\n") - 1)
    ELSE text

\* ollama_generate, from the answer on: strip, first line, 280 characters.
ollama_generate(response) == PySliceFirst(FirstLine(Strip(response)), MaxRoastChars)

\* score_roast, in tenths.  round(s, 1) of s = min(10, min(10, 3 + 0.02 *
\* len + 0.8 * punc) + 0.6 * spice): in hundredths s is an even number, so
\* it is never half-way between two tenths.
score_roast(text, spice) ==
    LET t == Strip(text)
        punc == Cardinality({ i \in 1..Len(t) : t[i] \in { "!", "?", "." } })
        base == Min2(1000, 300 + 2 * Len(t) + 80 * punc)
        s == Min2(1000, base + 60 * spice)
    IN  IF t = << >> THEN 0 ELSE (s + 5) \div 10

\* The state of one awaitable handed to asyncio.gather, and what gather
\* puts in its place in `outs` (return_exceptions=True).
TaskPending == [state |-> "pending"]
TaskReturned(text) == [state |-> "returned", text |-> text]
TaskRaised(error) == [state |-> "raised", error |-> error]

RoastOut(character, text, score) ==
    [character |-> character, text |-> text, score |-> score]

\* The handler with asyncio.gather(*tasks): the first exception of a task
\* leaves gather and the handler.
HandlerResponse_Propagate(characters, outs, spice) ==
    IF \E i \in 1..Len(outs) : outs[i].state = "raised"
    THEN Raises(outs[CHOOSE i \in 1..Len(outs) : outs[i].state = "raised"].error)
    ELSE Returns([i \in 1..Len(characters) |->
                    RoastOut(characters[i], outs[i].text,
                             score_roast(outs[i].text, spice))])

\* main.py 75-80: one RoastOut per pair of zip(req.characters, outs).
HandlerResponse(characters, outs, spice) ==
    Returns([i \in 1..Min2(Len(characters), Len(outs)) |->
               LET text == IF outs[i].state = "raised" THEN Placeholder
                           ELSE outs[i].text
               IN  RoastOut(characters[i], text, score_roast(text, spice))])

NoRoastRequest == [characters |-> << >>, spice |-> 0]

ServerIdle ==
    /\ srv_pc = "idle"
    /\ srv_req = NoRoastRequest
    /\ srv_outs = << >>
    /\ srv_response = NotCalled

\* POST /roast: one ollama_generate call per character is handed to
\* asyncio.gather, which runs them concurrently (main.py 68-73).  The
\* handler keeps nothing from one request to the next, so one request is
\* followed per behaviour.
roast ==
    /\ srv_pc = "idle"
    /\ \E characters \in CharacterLists, spice \in Spices :
          /\ srv_req' = [characters |-> characters, spice |-> spice]
          /\ srv_outs' = [i \in 1..Len(characters) |-> TaskPending]
    /\ srv_pc' = "gather"
    /\ UNCHANGED srv_response
    /\ UNCHANGED <<memVars, moodVars, relVars, engVars, peVars, ctxVars, anVars, httpVars>>

\* One of the running ollama_generate calls returns its text.
ollama_returns ==
    /\ srv_pc = "gather"
    /\ \E i \in 1..Len(srv_outs), response \in OllamaResponses :
          /\ srv_outs[i] = TaskPending
          /\ srv_outs' = [srv_outs EXCEPT ![i] = TaskReturned(ollama_generate(response))]
    /\ UNCHANGED <<srv_pc, srv_req, srv_response>>
    /\ UNCHANGED <<memVars, moodVars, relVars, engVars, peVars, ctxVars, anVars, httpVars>>

\* One of the running ollama_generate calls raises (the connection fails,
\* raise_for_status rejects the status).
ollama_raises ==
    /\ srv_pc = "gather"
    /\ \E i \in 1..Len(srv_outs), error \in OllamaErrors :
          /\ srv_outs[i] = TaskPending
          /\ srv_outs' = [srv_outs EXCEPT ![i] = TaskRaised(error)]
    /\ UNCHANGED <<srv_pc, srv_req, srv_response>>
    /\ UNCHANGED <<memVars, moodVars, relVars, engVars, peVars, ctxVars, anVars, httpVars>>

\* Every call has ended: gather returns `outs` and the handler builds its
\* response (main.py 73-80; latency_ms, which is a clock reading, is left
\* out).
gather_returns ==
    /\ srv_pc = "gather"
    /\ \A i \in 1..Len(srv_outs) : srv_outs[i] # TaskPending
    /\ srv_response' = HandlerResponse(srv_req.characters, srv_outs, srv_req.spice)
    /\ srv_pc' = "done"
    /\ UNCHANGED <<srv_req, srv_outs>>
    /\ UNCHANGED <<memVars, moodVars, relVars, engVars, peVars, ctxVars, anVars, httpVars>>

ServerNext ==
    \/ roast
    \/ ollama_returns
    \/ ollama_raises
    \/ gather_returns

-----------------------------------------------------------------------------

(* Specifications                                                          *)

InitMemory == MemInit /\ MoodIdle /\ RelIdle /\ EngineIdle /\ PersonalityIdle /\ ContextIdle /\ AnalyzerIdle /\ HttpIdle /\ ServerIdle
SpecMemory == InitMemory /\ [][MemNext]_vars

InitMood == MoodInit /\ MemIdle /\ RelIdle /\ EngineIdle /\ PersonalityIdle /\ ContextIdle /\ AnalyzerIdle /\ HttpIdle /\ ServerIdle
SpecMood == InitMood /\ [][MoodNext]_vars

InitRel == RelIdle /\ MemIdle /\ MoodIdle /\ EngineIdle /\ PersonalityIdle /\ ContextIdle /\ AnalyzerIdle /\ HttpIdle /\ ServerIdle
SpecRel == InitRel /\ [][RelNext]_vars

InitContext == MemIdle /\ ContextIdle /\ MoodIdle /\ RelIdle /\ EngineIdle /\ PersonalityIdle /\ AnalyzerIdle /\ HttpIdle /\ ServerIdle
SpecContext == InitContext /\ [][ContextNext]_vars

InitScenario == ScenarioInit /\ ContextIdle /\ MoodIdle /\ RelIdle /\ EngineIdle /\ PersonalityIdle /\ AnalyzerIdle /\ HttpIdle /\ ServerIdle
SpecScenario == InitScenario /\ [][ScenarioNext]_vars

InitAnalyzer == AnalyzerIdle /\ MemIdle /\ MoodIdle /\ RelIdle /\ EngineIdle /\ PersonalityIdle /\ ContextIdle /\ HttpIdle /\ ServerIdle
SpecAnalyzer == InitAnalyzer /\ [][AnalyzerNext]_vars

InitEngine == EngineInit /\ PersonalityIdle /\ MemIdle /\ MoodIdle /\ RelIdle /\ ContextIdle /\ AnalyzerIdle /\ HttpIdle /\ ServerIdle
SpecEngine == InitEngine /\ [][EngineNext]_vars

InitPersonality == PersonalityInit /\ EngineIdle /\ MemIdle /\ MoodIdle /\ RelIdle /\ ContextIdle /\ AnalyzerIdle /\ HttpIdle /\ ServerIdle
SpecPersonality == InitPersonality /\ [][PersonalityNext]_vars

InitPool == PoolInit /\ PersonalityIdle /\ MemIdle /\ MoodIdle /\ RelIdle /\ ContextIdle /\ AnalyzerIdle /\ HttpIdle /\ ServerIdle
SpecPool == InitPool /\ [][EngineNext]_vars

InitHttp == HttpIdle /\ ServerIdle /\ MemIdle /\ MoodIdle /\ RelIdle /\ EngineIdle /\ PersonalityIdle /\ ContextIdle /\ AnalyzerIdle
SpecHttp == InitHttp /\ [][HttpNext]_vars

InitServer == ServerIdle /\ HttpIdle /\ MemIdle /\ MoodIdle /\ RelIdle /\ EngineIdle /\ PersonalityIdle /\ ContextIdle /\ AnalyzerIdle
SpecServer == InitServer /\ [][ServerNext]_vars

\* Decay applied repeatedly: time keeps passing and auto_decay_check keeps
\* being called.
SpecDecay ==
    /\ InitMood
    /\ [][DecayNext]_vars
    /\ WF_vars(ClockTick)
    /\ WF_vars(auto_decay_check)

-----------------------------------------------------------------------------
(* Claims about the memory                                                 *)

\* C1: after any sequence of add_conversation calls the memory length is at
\* most max_memory_size, for every non-negative max_memory_size.
C1_LengthBounded == Len(conversation_memory) <= max_memory_size

\* C2: with max_memory_size >= 10, after n appends the last min(10, n) appended
\* entries are the tail of conversation_memory, in append order, whatever
\* their effectiveness scores are.
C2_RecentPreserved ==
    max_memory_size >= RecentKeep =>
        LET k == Min2(RecentKeep, appended)
            n == Len(conversation_memory)
        IN  /\ n >= k
            /\ Len(appended_tail) = k
            /\ SubSeq(conversation_memory, n - k + 1, n) = appended_tail

\* an eviction has happened while a recent entry carries no score and an older,
\* scored entry was appended before it
C2_Witness ==
    /\ max_memory_size >= RecentKeep
    /\ appended > max_memory_size
    /\ Len(conversation_memory) = max_memory_size
    /\ \E i \in 1..Len(appended_tail) :
          appended_tail[i].effectiveness_score = NoScore
    /\ \E i \in 1..Len(conversation_memory) :
          /\ conversation_memory[i].effectiveness_score # NoScore
          /\ conversation_memory[i].timestamp <= appended - RecentKeep

IsChronological(s) ==
    \A i, j \in 1..Len(s) : i < j => s[i].timestamp <= s[j].timestamp

\* C10: conversation_memory stays in chronological (append) order, also after
\* evictions, so get_conversation_thread(roommate, turns) returns the last
\* `turns` entries in chronological order for every turns up to the length.
C10_Chronological ==
    /\ IsChronological(conversation_memory)
    /\ \A turns \in 1..Len(conversation_memory) :
          LET thread == get_conversation_thread(conversation_memory, turns)
          IN  /\ Len(thread) = turns
              /\ IsChronological(thread)

-----------------------------------------------------------------------------
(* Claims about the mood                                                   *)

\* C3: after any sequence of update_mood, simulate_mood_event and decay_moods
\* calls on a persona whose mood and baseline start in 1..100, the mood is an
\* integer in 1..100.
C3_MoodInRange == mood \in MoodMin..MoodMax

\* a mood event drove the mood down to the lower clamp
C3_Witness == mood_op = "simulate_mood_event" /\ mood = MoodMin

Between(x, a, b) == (a <= x /\ x <= b) \/ (b <= x /\ x <= a)

\* C4: after every decay_moods call the new mood lies between the old mood
\* and the baseline, both included.
C4_DecayTowardBaseline ==
    [][mood_op' \in {"decay_moods", "auto_decay_check"}
          => Between(mood', mood, baseline_mood)]_vars

\* a decay ran and left the mood strictly on its side of the baseline
C4_Witness == mood_op = "decay_moods" /\ mood > baseline_mood

\* C9: with no mood events and decay applied repeatedly with positive elapsed
\* time, the mood eventually equals the baseline, from above or from below.
C9_EventuallyBaseline == <>(mood = baseline_mood)

-----------------------------------------------------------------------------
(* Claims about the relationships                                          *)

\* C5: get_relationship_score(a, b) equals get_relationship_score(b, a) for
\* all names a and b, after any sequence of update_relationship,
\* simulate_interaction_outcome and reset_relationship calls with the
\* arguments in either order.
C5_ScoreSymmetric ==
    \A a \in Names, b \in Names :
        get_relationship_score(relationship_matrix, a, b)
            = get_relationship_score(relationship_matrix, b, a)

\* the last update named the pair against the sorted order and moved its score
C5_Witness ==
    /\ rel_last[1] = "update_relationship"
    /\ rel_last[2] # rel_last[3]
    /\ NameRank(rel_last[2]) > NameRank(rel_last[3])
    /\ get_relationship_score(relationship_matrix, rel_last[3], rel_last[2])
           # DefaultScore

-----------------------------------------------------------------------------
(* Claims about the turns of Engine and PersonalityEngine                  *)

\* The suffix test on sequences.
IsSuffix(t, s) ==
    /\ Len(t) <= Len(s)
    /\ SubSeq(s, Len(s) - Len(t) + 1, Len(s)) = t

\* The complete lines a consumer has received: the user's line, and every
\* speaker prefix with the chunks that followed it up to its "\n".  A
\* prefix whose "\n" has not been yielded contributes nothing.
RECURSIVE LinesOf(_, _)
LinesOf(yielded, current) ==
    IF yielded = << >>
    THEN << >>
    ELSE LET f == Head(yielded)
         IN  CASE f.kind = "user" ->
                    << Line(f.speaker, f.text) >> \o LinesOf(Tail(yielded), current)
               [] f.kind = "prefix" ->
                    LinesOf(Tail(yielded), Line(f.speaker, << >>))
               [] f.kind = "chunk" ->
                    LinesOf(Tail(yielded),
                            Line(current.speaker, current.text \o f.text))
               [] OTHER ->
                    << current >> \o LinesOf(Tail(yielded), current)

YieldedLines(yielded) == LinesOf(yielded, Line("", << >>))

\* C6: when the backend raises during Engine.turn or
\* PersonalityEngine.personality_turn the turn does not abort: no turn ends
\* with the backend's exception leaving it instead of a transcript.
C6_TurnSurvivesFailure ==
    /\ eng_outcome # "backend_error"
    /\ pe_outcome # "backend_error"

\* What Engine.turn_stream has recorded in its history is, line for line,
\* what its consumer has received in full.
EngineStreamRecords ==
    eng_mode = "turn_stream" =>
        LET received == YieldedLines(eng_yielded)
        IN  /\ eng_hist_adds <= Len(received)
            /\ IsSuffix(SubSeq(received, 1, eng_hist_adds), conversation_history)

\* The persona lines of a history of PersonalityEngine.
RECURSIVE PersonaLines(_)
PersonaLines(history) ==
    IF history = << >>
    THEN << >>
    ELSE LET e == Head(history)
         IN  (IF e.speaker = "user" THEN << >>
              ELSE << Line(e.speaker, e.message) >>) \o PersonaLines(Tail(history))

\* What the first personality_turn_stream of an engine has recorded for its
\* personas is, line for line, what its consumer has received in full.
PersonalityStreamRecords ==
    (pe_mode = "personality_turn_stream" /\ pe_turns = 1) =>
        LET received == Tail(YieldedLines(pe_yielded))
            recorded == PersonaLines(interaction_history)
        IN  /\ Len(recorded) <= Len(received)
            /\ recorded = SubSeq(received, 1, Len(recorded))

\* C7: in a streamed turn a persona's line is recorded in the history only
\* after its fragment stream has been drained, the recorded line is the
\* concatenation of its fragments, and a stream the consumer or the provider
\* cut short leaves no line for that persona.
C7_StreamRecordsWholeLines ==
    /\ EngineStreamRecords
    /\ PersonalityStreamRecords

\* The i-th speaker of the running turn of Engine.
SpeakerAt(i) == IF i = 1 THEN eng_primary ELSE eng_roasters[i - 1]

\* The transcript of the running turn so far: `lines` in Engine.turn, the
\* complete lines received in Engine.turn_stream.
TurnSoFar == IF eng_mode = "turn" THEN lines ELSE YieldedLines(eng_yielded)

RequestInFlight == eng_pc \in {"generate", "yield_prefix", "yield_chunk"}

-----------------------------------------------------------------------------
(* Claims about the roast intensity modifier                               *)

\* C11: get_roast_intensity_modifier is non-increasing in the relationship
\* score: of two pairs of distinct roommates, the pair with the higher score
\* never has the higher modifier.
C11_ModifierNonIncreasing ==
    \A a, b, c, d \in Names :
        (a # b /\ c # d
         /\ get_relationship_score(relationship_matrix, a, b)
              < get_relationship_score(relationship_matrix, c, d))
        => get_roast_intensity_modifier(relationship_matrix, c, d)
              <= get_roast_intensity_modifier(relationship_matrix, a, b)

\* C12: get_roast_intensity_modifier is in [0.5, 1.5] for every score 0..100
\* and for every pair of the matrix, in [0.5, 0.7] for every score >= 80,
\* and exactly 1.0 for a self pair.
C12_ModifierRange ==
    /\ \A s \in ScoreMin..ScoreMax :
          /\ IntensityForScore(s) \in 50..150
          /\ s >= 80 => IntensityForScore(s) \in 50..70
    /\ \A a, b \in Names :
          LET modifier == get_roast_intensity_modifier(relationship_matrix, a, b)
          IN  /\ modifier \in 50..150
              /\ (a # b /\ get_relationship_score(relationship_matrix, a, b) >= 80)
                    => modifier \in 50..70
              /\ a = b => modifier = 100

\* update_relationship has lifted a pair into the top band, short of 100.
C12_Witness ==
    /\ rel_last[1] = "update_relationship"
    /\ rel_last[2] # rel_last[3]
    /\ get_relationship_score(relationship_matrix, rel_last[2], rel_last[3]) \in 80..99
    /\ get_roast_intensity_modifier(relationship_matrix, rel_last[2], rel_last[3]) > 50

-----------------------------------------------------------------------------
(* Claims about the relationships held on the personas                     *)

-----------------------------------------------------------------------------
(* Claims about what a turn does with the generated text                   *)

\* No line of a sequence of lines has an empty text.
NoEmptyText(ls) == \A i \in 1..Len(ls) : ls[i].text # << >>

\* C14: a persona whose generated text is empty or whitespace-only
\* contributes nothing: in the first turn of Engine.turn or
\* PersonalityEngine.personality_turn no line of the transcript and no entry
\* of the history carries an empty text.
C14_EmptyTextContributesNothing ==
    /\ (eng_mode = "turn" /\ eng_turns = 1) =>
          /\ NoEmptyText(lines)
          /\ NoEmptyText(conversation_history)
    /\ (pe_mode = "personality_turn" /\ pe_turns = 1) =>
          /\ NoEmptyText(responses)
          /\ \A i \in 1..Len(interaction_history) :
                interaction_history[i].message # << >>

\* The text is what sanitize_roast lets through: the refusal, or at most
\* MaxRoastLength characters with no protected-category or slur match.
IsSanitized(text) ==
    \/ text = Refusal
    \/ /\ Len(text) <= MaxRoastLength
       /\ ~ProtectedSearch(text)
       /\ ~SlurSearch(text)

\* The roast lines of a transcript: those after the user's and the primary's.
RoastsSanitized(transcript) ==
    \A i \in 3..Len(transcript) : IsSanitized(transcript[i].text)

\* C15: every roast line of a turn's transcript has passed through the
\* sanitizer: its text is the refusal, or at most 200 characters with no
\* protected-category or slur match.
C15_RoastsSanitized ==
    /\ RoastsSanitized(lines)
    /\ RoastsSanitized(YieldedLines(eng_yielded))
    /\ RoastsSanitized(responses)

\* C16: when a turn returns, every persona line of its transcript has been
\* recorded in the rolling history and, by one add_conversation call each,
\* in the memory of the persona that spoke.
C16_LinesRecordedInMemory ==
    /\ eng_outcome = "returned" =>
          /\ IsSuffix(lines, conversation_history)
          /\ appended >= Len(lines) - 1
    /\ pe_outcome = "returned" =>
          /\ Len(interaction_history) >= Len(responses)
          /\ appended >= Len(responses) - 1

-----------------------------------------------------------------------------
(* Claims about the relationship matrix                                    *)

\* Every stored score is in 0..100 and no entry is stored for a self pair.
MatrixWellFormed ==
    \A key \in DOMAIN relationship_matrix :
        /\ relationship_matrix[key] \in ScoreMin..ScoreMax
        /\ key[1] # key[2]

\* A call of update_relationship or reset_relationship on a self pair leaves
\* the matrix as it was.
SelfPairCallChangesNothing ==
    (/\ rel_calls' = rel_calls + 1
     /\ rel_last'[1] \in {"update_relationship", "reset_relationship"}
     /\ rel_last'[2] = rel_last'[3])
    => relationship_matrix' = relationship_matrix

\* C17: after any calls of update_relationship, simulate_interaction_outcome
\* and reset_relationship every stored score is in 0..100 and the matrix has
\* no entry for a self pair; update_relationship(a, a, d) and
\* reset_relationship(a, a) change nothing.
C17_MatrixWellFormed ==
    /\ []MatrixWellFormed
    /\ [][SelfPairCallChangesNothing]_vars

\* update_relationship has just been called on a self pair, with a matrix
\* that holds a score clamped at each end of the range.
C17_Witness ==
    /\ rel_last[1] = "update_relationship"
    /\ rel_last[2] = rel_last[3]
    /\ \E key \in DOMAIN relationship_matrix : relationship_matrix[key] = ScoreMin
    /\ \E key \in DOMAIN relationship_matrix : relationship_matrix[key] = ScoreMax

-----------------------------------------------------------------------------
(* Claims about get_relevant_context                                       *)

\* the number of positions of s that hold e
CountOf(s, e) == Cardinality({ i \in 1..Len(s) : s[i] = e })

\* the score of an entry under the last query
QueryScore(entry) == RelevanceScore(entry, ctx_query.current_topic, ctx_query.now)

\* the number of entries of s that score more than x under the last query
CountAbove(s, x) == Cardinality({ i \in 1..Len(s) : QueryScore(s[i]) > x })

\* What the last call returned: at most `limit` entries, each taken from the
\* memory, in non-increasing order of score, with every entry that scores
\* more than a returned one returned too.
RelevantContextRanked ==
    ctx_query # NoQuery =>
        /\ Len(relevant_context) <= ctx_query.limit
        /\ \A i \in 1..Len(relevant_context) :
              /\ CountOf(relevant_context, relevant_context[i])
                    <= CountOf(conversation_memory, relevant_context[i])
              /\ CountAbove(conversation_memory, QueryScore(relevant_context[i]))
                    = CountAbove(relevant_context, QueryScore(relevant_context[i]))
        /\ \A i, j \in 1..Len(relevant_context) :
              i < j => QueryScore(relevant_context[i]) >= QueryScore(relevant_context[j])

\* The call leaves the memory as it was.
QueryKeepsMemory ==
    ctx_query' # ctx_query => conversation_memory' = conversation_memory

-----------------------------------------------------------------------------
(* Claims about the run of sixty entries                                   *)

\* C19: after the 60 entries of the run, the oldest 15 with effectiveness
\* 0.1 and the other 45 with 0.9, a memory with max_memory_size = 50 has 50
\* entries: the 10 most recent in order, and the 40 highest-effectiveness of
\* the other 50, that is all 35 remaining 0.9 entries and 5 of the 0.1
\* entries.  For the other sizes of the run likewise: the 10 most recent and
\* the highest-effectiveness of the others.
C19_ScenarioKeepsBest ==
    appended = Scenario.entries =>
        LET n == Len(conversation_memory)
            others == Scenario.entries - RecentKeep
            high_others == others - Scenario.low
            older == SubSeq(conversation_memory, 1, n - RecentKeep)
            low_kept == { i \in 1..Len(older) :
                            older[i].effectiveness_score = Scenario.low_score }
        IN  /\ n = Min2(Scenario.entries, max_memory_size)
            /\ \A i \in 1..RecentKeep :
                  conversation_memory[n - RecentKeep + i] = ScenarioEntry(others + i)
            /\ \A i \in 1..Len(older) :
                  /\ older[i].timestamp \in 1..others
                  /\ older[i] = ScenarioEntry(older[i].timestamp)
            /\ \A i, j \in 1..Len(older) :
                  i # j => older[i].timestamp # older[j].timestamp
            /\ Cardinality(low_kept) = Max2(0, Len(older) - high_others)

\* The run has ended with max_memory_size = 50: the memory is full and
\* still holds an entry of low effectiveness.
C19_Witness ==
    /\ appended = Scenario.entries
    /\ max_memory_size = DefaultMaxMemorySize
    /\ Len(conversation_memory) = DefaultMaxMemorySize
    /\ conversation_memory[1].effectiveness_score = Scenario.low_score

-----------------------------------------------------------------------------
(* Claims about the mood modifiers                                         *)

\* The band table, in tenths: below 30, 30..49, 50..59, 60..80 and above 80.
BandTable(m) ==
    IF m < 30 THEN Modifiers(15, 7, 13, 14, 8)
    ELSE IF m <= 49 THEN Modifiers(12, 9, 11, 12, 10)
    ELSE IF m <= 59 THEN Modifiers(10, 10, 10, 10, 10)
    ELSE IF m <= 80 THEN Modifiers(8, 11, 10, 9, 10)
    ELSE Modifiers(6, 13, 8, 7, 12)

\* C20: get_mood_modifier follows the band table for every mood 1..100:
\* below 30, 30..49, 50..59 (all 1.0), 60..80 with both ends included
\* (aggression 0.8, roast_likelihood 0.9, humor 1.1) and above 80.
C20_ModifiersFollowBands ==
    get_mood_modifier(mood) = BandTable(mood)

-----------------------------------------------------------------------------
(* Claims about the choice of speakers                                     *)

\* the roommates whose name occurs in the message, letter case aside
NamedRoommates(user_message) ==
    { r \in Roommates :
        Contains(LowerText(Chars(r)), LowerText(Chars(user_message))) }

\* C21: when the user message names roommates of the pool, every named
\* roommate is among the speakers of the turn personality_turn returns.
C21_NamedPersonasSpeak ==
    (pe_mode = "personality_turn" /\ pe_outcome = "returned") =>
        \A r \in NamedRoommates(pe_user_msg) :
            \E i \in 1..Len(responses) : responses[i].speaker = r

\* the number of lines of a transcript spoken by a roommate
PersonaLineCount(transcript) ==
    Cardinality({ i \in 1..Len(transcript) : transcript[i].speaker # "You" })

\* C22: for a pool of at least 2 roommates, the transcript Engine.turn
\* returns has at least 2 and at most max_roasts_per_turn persona lines,
\* whatever the random draws.
C22_PersonaLinesWithinMaximum ==
    (eng_mode = "turn" /\ eng_outcome = "returned" /\ Cardinality(Roommates) >= 2) =>
        /\ PersonaLineCount(lines) >= 2
        /\ PersonaLineCount(lines) <= max_roasts_per_turn

-----------------------------------------------------------------------------
(* Claims about the fragments of a streamed turn                           *)

\* the positions of the stream that hold a fragment equal to "\n"
NewlinePositions(yielded) ==
    { i \in 1..Len(yielded) : Rendered(yielded[i]) = << "\n" >> }

\* the positions of the stream that hold a speaker's "Name: " prefix
PrefixPositions(yielded) ==
    { i \in 1..Len(yielded) : yielded[i].kind = "prefix" }

\* C23: in the fragments of Engine.turn_stream, a fragment equal to "\n"
\* occurs once per persona speaker, right after that speaker's last content
\* fragment and nowhere else: what follows a "\n" is the next speaker's
\* prefix or the end of the stream, each speaker's segment is its prefix,
\* its content and that "\n", and a drained stream has as many "\n"
\* fragments as speakers.
C23_NewlineEndsEachSpeaker ==
    eng_mode = "turn_stream" =>
        /\ \A i \in NewlinePositions(eng_yielded) :
              i < Len(eng_yielded) => eng_yielded[i + 1].kind = "prefix"
        /\ \A i \in PrefixPositions(eng_yielded) :
              \/ eng_yielded[i - 1].kind = "user"
              \/ Rendered(eng_yielded[i - 1]) = << "\n" >>
        /\ eng_outcome = "exhausted" =>
              /\ Cardinality(NewlinePositions(eng_yielded))
                    = Cardinality(PrefixPositions(eng_yielded))
              /\ Cardinality(PrefixPositions(eng_yielded)) = 1 + Len(eng_roasters)

-----------------------------------------------------------------------------
(* Claims about ConversationAnalyzer                                       *)

\* C24: analyze_message given None or another value that is not a string
\* does not raise: it returns what it returns for the empty string
\* (sentiment 0.0, urgency 0.0, question_count 0, no topics, repeated
\* phrases or behavioral flags).
C24_MalformedInputIsNeutral ==
    (an_result # NotCalled /\ an_message.type # "str") =>
        /\ an_result = analyze_message(PyStr(""))
        /\ an_result = Returns([topics |-> << >>, sentiment |-> Quotient(0, 1),
                                urgency |-> Quotient(0, 5), question_count |-> 0,
                                repeated_phrases |-> << >>,
                                behavioral_flags |-> << >>])

-----------------------------------------------------------------------------
(* Claims about the lookups of RelationshipEngine                          *)

\* the names that occur in a key of the matrix
UsedNames(m) == { n \in Names : \E key \in DOMAIN m : key[1] = n \/ key[2] = n }

\* what each lookup returns for the default score 50 (the modifier in
\* hundredths)
DefaultLookupResult(method) ==
    CASE method = "get_relationship_score" -> [score |-> 50]
      [] method = "should_defend" -> [defend |-> FALSE]
      [] method = "get_roast_intensity_modifier" -> [modifier |-> 100]
      [] method = "get_relationship_status" -> [status |-> "neutral"]

\* The last call was a lookup for a pair of two names of which one occurs in
\* no entry of the matrix: it returned the result for the score 50.
UnknownNameGetsDefault ==
    (/\ rel_last[1] \in LookupMethods
     /\ rel_last[2] # rel_last[3]
     /\ {rel_last[2], rel_last[3]} \ UsedNames(relationship_matrix) # {})
        => rel_result = DefaultLookupResult(rel_last[1])

\* A lookup leaves the matrix as it was: no entry created, none altered.
LookupKeepsMatrix ==
    rel_last'[1] \in LookupMethods => relationship_matrix' = relationship_matrix

\* C25: get_relationship_score, should_defend, get_roast_intensity_modifier
\* and get_relationship_status called for a roommate name that was never
\* used before (paired with another name) return the result for the default
\* score 50, and a lookup never creates or alters an entry of
\* relationship_matrix.
C25_LookupDefaultsAndFrame ==
    /\ []UnknownNameGetsDefault
    /\ [][LookupKeepsMatrix]_vars

\* get_relationship_status was called for a name that has no entry, after
\* the other two names got an entry with a score other than 50; the lookup
\* returned "neutral" and the matrix still has that one entry.
C25_Witness ==
    /\ rel_last[1] = "get_relationship_status"
    /\ rel_last[2] = "CodeMaster"
    /\ rel_last[3] = "BeatDrop"
    /\ DOMAIN relationship_matrix = { << "BeatDrop", "ChefCritic" >> }
    /\ relationship_matrix[<< "BeatDrop", "ChefCritic" >>] = 53
    /\ rel_result = [status |-> "neutral"]

\* the table of deltas: <<on success, on failure>> for each known type
DeltaTable ==
    [roast |-> << -3, -1 >>, defend |-> << 5, 2 >>, compliment |-> << 4, 1 >>,
     joke |-> << 2, -1 >>, support |-> << 3, 1 >>, conflict |-> << -5, -2 >>]

\* A step that is a call simulate_interaction_outcome(a, b, type, success):
\* for a # b and a type of the table it returns the table's delta and leaves
\* score(a, b) at the former score plus the delta, clamped to 0..100;
\* otherwise it returns 0 and the matrix is as before.
SimulateFollowsTable ==
    rel_last'[1] = "simulate_interaction_outcome" =>
        LET a == rel_last'[2]
            b == rel_last'[3]
            type == rel_last'[4]
            success == rel_last'[5]
        IN  IF a # b /\ type \in DOMAIN DeltaTable
            THEN LET delta == DeltaTable[type][IF success THEN 1 ELSE 2]
                     before == get_relationship_score(relationship_matrix, a, b)
                 IN  /\ rel_result' = [delta |-> delta]
                     /\ get_relationship_score(relationship_matrix', a, b)
                           = Max2(0, Min2(100, before + delta))
            ELSE /\ rel_result' = [delta |-> 0]
                 /\ relationship_matrix' = relationship_matrix

\* C30: simulate_interaction_outcome(a, b, type, success) with a # b and a
\* known type returns the table delta (roast -3/-1, defend +5/+2, compliment
\* +4/+1, joke +2/-1, support +3/+1, conflict -5/-2 for success/failure) and
\* leaves score(a, b) equal to the previous score plus that delta clamped to
\* 0..100; with a = b or an unknown type it returns 0 and changes nothing in
\* relationship_matrix.
C30_InteractionFollowsTable == [][SimulateFollowsTable]_vars

\* A failed joke was simulated for a pair whose score an update had taken
\* to 0: the call returned -1 and the score, clamped, is still 0.
C30_Witness ==
    /\ rel_last = << "simulate_interaction_outcome", "CodeMaster", "BeatDrop",
                     "joke", FALSE >>
    /\ rel_result = [delta |-> -1]
    /\ relationship_matrix[<< "BeatDrop", "CodeMaster" >>] = 0

-----------------------------------------------------------------------------
(* Claims about the entry add_conversation evicts                          *)

\* the set of the entries of a memory (timestamps tell them apart)
EntriesOf(mem) == { mem[i] : i \in 1..Len(mem) }

\* A step that appends an entry to a memory that is full, for a
\* max_memory_size of at least 10: exactly one entry is gone afterwards, it
\* is one of those that were not among the 10 most recent (the new entry
\* counted), and no other of those has a lower effectiveness.
EvictsOneLeastEffective ==
    (/\ appended' = appended + 1
     /\ max_memory_size >= RecentKeep
     /\ Len(conversation_memory) + 1 > max_memory_size)
        => LET entry == appended_tail'[Len(appended_tail')]
               m1 == Append(conversation_memory, entry)
               older == PySliceButLast(m1, RecentKeep)
           IN  /\ Len(conversation_memory') = Len(m1) - 1
               /\ \E r \in 1..Len(older) :
                     /\ EntriesOf(conversation_memory') = EntriesOf(m1) \ { older[r] }
                     /\ \A j \in 1..Len(older) : EffKey(older[r]) <= EffKey(older[j])

\* C26: when an add_conversation call pushes the memory over
\* max_memory_size (max_memory_size >= 10), exactly one entry is removed and
\* it has the minimum effectiveness score (a missing score counts as 0)
\* among the entries that are not in the 10 most recent.
C26_EvictsLeastEffective == [][EvictsOneLeastEffective]_vars

\* With max_memory_size 12 the 13th append evicted the second entry, the one
\* without a score, from between two older entries of score 0.9.
C26_Witness ==
    /\ max_memory_size = MaxMemorySize
    /\ appended = MaxMemorySize + 1
    /\ Len(conversation_memory) = MaxMemorySize
    /\ conversation_memory[1].timestamp = 1
    /\ conversation_memory[2].timestamp = 3
    /\ conversation_memory[1].effectiveness_score = 9
    /\ conversation_memory[2].effectiveness_score = 9

-----------------------------------------------------------------------------
(* Claims about the mood change of an event                                *)

\* the integer quotient rounded toward zero, for i >= 0 and k > 0
DivTowardZero(i, k) == i \div k

\* the stated change of the mood for an event type and an intensity
StatedMoodChange(event_type, i) ==
    CASE event_type \in {"roast_received", "criticized"} -> -i
      [] event_type \in {"defended", "complimented", "praised"} -> i
      [] event_type \in {"roast_successful", "supported"} -> DivTowardZero(i, 2)
      [] event_type = "ignored" -> -DivTowardZero(i, 3)
      [] OTHER -> 0

\* C27: update_mood changes the mood, before clamping to 1..100, by exactly
\* roast_received -i, criticized -i, defended / complimented / praised +i,
\* roast_successful and supported +(i div 2), ignored -(i div 3), for every
\* intensity i in 1..10, with the quotient rounded toward zero; an unknown
\* event type leaves the mood unchanged.  Stated on what a call
\* update_mood(roommate, event_type, i) makes of the mood of the state.
C27_MoodChangeTable ==
    \A event_type \in EventTypes, i \in Intensities :
        /\ MoodDelta(event_type, i) = StatedMoodChange(event_type, i)
        /\ ClampMood(mood + MoodDelta(event_type, i))
              = Max2(1, Min2(100, mood + StatedMoodChange(event_type, i)))

-----------------------------------------------------------------------------
(* Claims about auto_decay_check                                           *)

\* A step that is a call of auto_decay_check (the clock does not move in
\* it): less than a minute after last_decay_time it leaves the mood and
\* last_decay_time, and so the elapsed time, as they were; otherwise it
\* applies the decay of decay_moods once, for all the elapsed time, and
\* last_decay_time becomes the current time.
AutoDecayStep ==
    (mood_op' = "auto_decay_check" /\ elapsed' # elapsed + 1) =>
        IF elapsed < TicksPerMinute
        THEN /\ mood' = mood
             /\ elapsed' = elapsed
             /\ minutes_passed' = minutes_passed
        ELSE /\ mood' = DecayOne(mood, baseline_mood, elapsed)
             /\ minutes_passed' = elapsed
             /\ elapsed' = 0

\* C28: auto_decay_check called less than one minute after last_decay_time
\* leaves every mood and last_decay_time unchanged, so the elapsed time
\* keeps accumulating; called one minute or more after, it applies
\* decay_moods once with the full elapsed minutes and sets last_decay_time
\* to the current time.
C28_AutoDecayThreshold == [][AutoDecayStep]_vars

\* auto_decay_check decayed a mood above its baseline with an elapsed time
\* of a minute and a half, which a call before the first minute had left
\* to accumulate.
C28_Witness ==
    /\ mood_op = "auto_decay_check"
    /\ minutes_passed = TicksPerMinute + 1
    /\ elapsed = 0
    /\ mood > baseline_mood

-----------------------------------------------------------------------------
(* Claims about get_conversation_thread                                    *)

\* the last n entries of a sequence, all of it when it has fewer
LastEntries(s, n) == SubSeq(s, Len(s) - Min2(n, Len(s)) + 1, Len(s))

\* C29: get_conversation_thread(roommate, turns) returns exactly the last
\* min(turns, len(memory)) entries for every turns >= 0, never more than
\* `turns` entries; for turns = 0 it returns an empty list.
C29_ThreadIsLastTurns ==
    \A turns \in 0..MaxAppends :
        LET thread == get_conversation_thread(conversation_memory, turns)
        IN  /\ thread = LastEntries(conversation_memory, turns)
            /\ Len(thread) <= turns

-----------------------------------------------------------------------------
(* Claims about the choice of speakers and targets                         *)

\* C31: for every non-empty pool and every max_roasts_per_turn >= 1, no
\* exception of the engine's own leaves Engine.turn or Engine.turn_stream:
\* when the backend succeeds the turn ends by returning its transcript or
\* by exhausting its stream.
C31_TurnCompletes ==
    eng_pc = "done" =>
        eng_outcome \in {"returned", "exhausted", "closed", "backend_error"}

\* C32: within one turn of Engine no persona contributes more than one
\* line: the persona lines of the transcript so far (the returned `lines`,
\* or the complete lines received from the stream) have pairwise different
\* speakers, so the primary is never one of the roasters.
C32_OneLinePerPersona ==
    \A i, j \in 2..Len(TurnSoFar) :
        i # j => TurnSoFar[i].speaker # TurnSoFar[j].speaker

\* C33: whenever a roast is requested in a turn of Engine, its target is
\* the user or a persona of the pool other than the roaster.
C33_NoSelfRoast ==
    (RequestInFlight /\ eng_request.target # "") =>
        \/ eng_request.target = "you"
        \/ /\ eng_request.target \in roommates
           /\ eng_request.target # eng_request.speaker

-----------------------------------------------------------------------------
(* Claims about the rolling history of Engine                              *)

\* C34: the context of every generation request of Engine holds the last 10
\* lines of conversation_history, or all of them when there are fewer, in
\* order.
C34_ContextIsLastTen ==
    RequestInFlight =>
        eng_request.context = LastEntries(conversation_history, 10)

\* conversation_history never holds more than max_history lines
HistoryWithinMax == Len(conversation_history) <= MaxHistory

\* a step of the turn calls _add_to_history
AddsToHistory ==
    \/ conversation_history' # conversation_history
    \/ eng_hist_adds' > 0 /\ eng_hist_adds' # eng_hist_adds

\* a step that adds to conversation_history puts one line at its end and
\* keeps, in their order, the last max_history lines of the result; in
\* Engine.turn the line is the one the step appends to the transcript
HistoryStep ==
    AddsToHistory =>
        /\ eng_mode' = "turn" =>
              conversation_history'[Len(conversation_history')] = lines'[Len(lines')]
        /\ conversation_history' # << >>
        /\ conversation_history' =
              LastEntries(Append(conversation_history,
                                 conversation_history'[Len(conversation_history')]),
                          MaxHistory)

\* C37: after any Engine.turn and fully or partly consumed
\* Engine.turn_stream calls, conversation_history holds at most max_history
\* (10) lines, and they are the lines added most recently, in the order
\* they were added.
C37_HistoryKeepsLatest ==
    /\ []HistoryWithinMax
    /\ [][HistoryStep]_vars

\* A stream was closed before its end, after it had added at least two
\* lines to a full history: the oldest lines are gone and the history
\* starts with the first earlier line that was not dropped.
C37_Witness ==
    /\ eng_mode = "turn_stream"
    /\ eng_outcome = "closed"
    /\ eng_hist_adds >= 2
    /\ Len(conversation_history) = MaxHistory
    /\ conversation_history[1] = EarlierLine(eng_hist_adds + 1)

-----------------------------------------------------------------------------
(* Claims about what PersonalityEngine records                             *)

\* What personality_turn appends to interaction_history for a message, its
\* primary, its roasters and the texts produced for them, in speaking order.
TurnRecords(user_message, primary, roasters_, texts) ==
    << UserEntry(user_message),
       Entry(primary, texts[1], Analysis(user_message), 0) >>
    \o [i \in 1..Len(roasters_) |->
          Entry(roasters_[i], texts[i + 1], Analysis(user_message), RoastSentiment)]

\* The texts of the persona lines of a transcript, in order.
TextsOf(transcript) ==
    [i \in 1..(Len(transcript) - 1) |-> transcript[i + 1].text]

\* C35: a fully drained personality_turn_stream leaves interaction_history
\* as personality_turn does for the same message, choices and texts: the
\* user's entry, the primary's and one per roaster, in speaking order, each
\* with the text produced for its speaker.
C35_StreamRecordsLikeTurn ==
    (pe_turns = 1 /\ pe_outcome \in {"returned", "exhausted"}) =>
        LET transcript == IF pe_mode = "personality_turn" THEN responses
                          ELSE YieldedLines(pe_yielded)
        IN  /\ Len(transcript) = 2 + Len(pe_roasters)
            /\ interaction_history =
                  TurnRecords(pe_user_msg, pe_primary, pe_roasters, TextsOf(transcript))

-----------------------------------------------------------------------------
(* Claims about the urgency ConversationAnalyzer computes                  *)

\* the number of all-caps words longer than 2 characters in a text
CapsWordCount(text) ==
    LET words == Split(text)
    IN  Cardinality({ i \in 1..Len(words) : IsUpper(words[i]) /\ Len(words[i]) > 2 })

\* an urgency, which is a multiple of 0.2, in fifths
Fifths(urgency) == (urgency.num * 5) \div urgency.den

\* C36: the urgency analyze_message returns for a message is the urgency
\* of the same message written in lower case plus 0.2 per all-caps word
\* longer than 2 characters of the message as written, up to 1.0; it is
\* always in [0, 1].
C36_CapsRaiseUrgency ==
    (an_result # NotCalled /\ an_message.type = "str") =>
        LET text == Chars(an_message.value)
            urgency == an_result.value.urgency
            lower_case == detect_urgency(LowerText(text))
        IN  /\ Fifths(urgency) = Min2(5, Fifths(lower_case) + CapsWordCount(text))
            /\ Fifths(urgency) >= 0
            /\ Fifths(urgency) <= 5

-----------------------------------------------------------------------------
(* Claims about RealHTTPBackend.get_roasts                                 *)

\* the POST attempts made so far that failed
FailedPosts == { i \in 1..Len(http_posts) : ~http_posts[i].ok }

\* the waits the claim states: 0.5 s after the first failure, 1.0 s after
\* the second, none after the third
StatedSleeps == << 5, 10 >>

\* C38: a call of get_roasts makes at most 3 POST attempts; it returns the
\* roasts of the first attempt that succeeds and makes no attempt after
\* it; it raises only when all 3 attempts failed, and then the third
\* attempt's error; it has waited 0.5 s after the first failure and 1.0 s
\* after the second, and does not wait after the third.
C38_RetriesThreeTimes ==
    /\ Len(http_posts) <= 3
    /\ \A i \in 1..Len(http_posts) : http_posts[i].ok => i = Len(http_posts)
    /\ http_result = NotCalled <=> http_pc # "done"
    /\ http_pc = "done" =>
          LET last == http_posts[Len(http_posts)]
          IN  IF last.ok
              THEN http_result = Returns(last.roasts)
              ELSE /\ Len(http_posts) = 3
                   /\ FailedPosts = 1..3
                   /\ http_result = Raises(last.error)
    /\ http_sleeps = SubSeq(StatedSleeps, 1, Min2(2, Cardinality(FailedPosts)))

\* The call returned the roasts of its third attempt, after two failures
\* and both waits.
C38_Witness ==
    /\ http_pc = "done"
    /\ Len(http_posts) = 3
    /\ http_posts[3].ok
    /\ http_result = Returns(http_posts[3].roasts)
    /\ http_sleeps = << 5, 10 >>

-----------------------------------------------------------------------------
(* Claims about the /roast handler                                         *)

\* a task that has ended keeps its outcome
OutcomeKept ==
    \A i \in 1..Len(srv_outs) :
        srv_outs[i] # TaskPending => srv_outs'[i] = srv_outs[i]

\* the response has one roast per requested character, in request order:
\* the text its call returned, or the placeholder if its call raised
OneRoastPerCharacter ==
    srv_pc = "done" =>
        /\ srv_response.raised = ""
        /\ Len(srv_response.value) = Len(srv_req.characters)
        /\ \A i \in 1..Len(srv_req.characters) :
              /\ srv_response.value[i].character = srv_req.characters[i]
              /\ srv_outs[i].state = "returned" =>
                    srv_response.value[i].text = srv_outs[i].text
              /\ srv_outs[i].state = "raised" =>
                    srv_response.value[i].text = Chars("backend error, try again")

\* C39: for every interleaving of the completions and failures of the
\* concurrent generation calls, the /roast handler returns exactly one
\* roast per requested character, in request order; a failed call yields
\* "backend error, try again" for its character only, never fails the
\* request and never changes another character's roast.
C39_OneRoastPerCharacter ==
    /\ []OneRoastPerCharacter
    /\ [][OutcomeKept]_vars

\* A request for three characters was answered after the call for the
\* second had raised and the calls for the other two had returned different
\* texts: the response carries the placeholder for the second only.
C39_Witness ==
    /\ srv_pc = "done"
    /\ Len(srv_req.characters) = 3
    /\ srv_outs[1].state = "returned"
    /\ srv_outs[2].state = "raised"
    /\ srv_outs[3].state = "returned"
    /\ srv_outs[1].text # srv_outs[3].text
    /\ srv_response.value[2].text = Placeholder
    /\ srv_response.value[1].text # Placeholder

====
